---------------------------- MODULE Spec2Model ----------------------------
(***************************************************************************)
(* Model of the nova router core (src/radix.go): the per-method sharded    *)
(* segment trie, the parameter-map pool, the hot cache with its promotion  *)
(* counters, the cleanup goroutine with its ticker, and the operations     *)
(* AddRoute, FindRoute, BatchAddRoutes and Close.                          *)
(*                                                                         *)
(* Strings are sequences of byte values, so that strings.Split, the FNV    *)
(* hash behind getShard and the cache key method + ":" + path are computed *)
(* the way the code computes them.                                         *)
(***************************************************************************)
EXTENDS Integers, Sequences, FiniteSets, TLC

(***************************************************************************)
(* Bounds of the model.                                                    *)
(***************************************************************************)
\* goroutines that call into the router concurrently
NumThreads == 2
\* parameter maps that may be live at the same time
MaxMaps == 2
\* matches a shard counts in Spec before lookups in it stop
MaxHits == 1
\* the clock stops at MaxTime
MaxTime == 2
\* Contexts a pool keeps, errors a Context collects
MaxCtx == 1
MaxErrors == 1
\* elements of the slice handed to simdMatch
MaxBranches == 5

(***************************************************************************)
(* Program constants.                                                      *)
(***************************************************************************)
methodShardCount == 256
hotCacheSize == 2000
hotCacheThreshold == 50
cacheShardCount == 16
\* cacheCleanupInterval, the unit of the model's clock
cacheCleanupInterval == 1

(***************************************************************************)
(* Byte strings.                                                           *)
(***************************************************************************)
Slash == 47
Colon == 58
Star == 42

\* "GET", "POST", "PUT", "DELETE", "PATCH", "OPTIONS", "HEAD"
mGET == <<71, 69, 84>>
mPOST == <<80, 79, 83, 84>>
mPUT == <<80, 85, 84>>
mDELETE == <<68, 69, 76, 69, 84, 69>>
mPATCH == <<80, 65, 84, 67, 72>>
mOPTIONS == <<79, 80, 84, 73, 79, 78, 83>>
mHEAD == <<72, 69, 65, 68>>
\* "TRACE": a valid HTTP verb the router was not constructed with
mTRACE == <<84, 82, 65, 67, 69>>

\* the keys of Router.methodShards
Methods == {mGET, mPOST, mPUT, mDELETE, mPATCH, mOPTIONS, mHEAD}

\* segment texts
sUsers == <<117, 115, 101, 114, 115>>
sList == <<108, 105, 115, 116>>
sId == <<105, 100>>
s42 == <<52, 50>>
sExtra == <<101, 120, 116, 114, 97>>
s61 == <<54, 49>>
sV2 == <<118, 50>>
\* an entry a caller writes into a map it was given: "k" -> "v"
sK == <<107>>
sV == <<118>>

\* "/users/:id", "/users/42", "/users/42/extra", "/users/list", "/users/"
pUsersId == <<Slash>> \o sUsers \o <<Slash, Colon>> \o sId
pUsers42 == <<Slash>> \o sUsers \o <<Slash>> \o s42
pUsers42Extra == pUsers42 \o <<Slash>> \o sExtra
pUsersList == <<Slash>> \o sUsers \o <<Slash>> \o sList
pUsersSlash == <<Slash>> \o sUsers \o <<Slash>>
\* "/users/61" and "/users/v2/extra": both hash to the shard of "/users/:id"
pUsers61 == <<Slash>> \o sUsers \o <<Slash>> \o s61
pUsersV2Extra == <<Slash>> \o sUsers \o <<Slash>> \o sV2 \o <<Slash>> \o sExtra

\* the patterns and paths the callers of the model use
AddPatterns == {pUsersId, pUsersList, pUsersSlash}
FindPaths == {pUsers42, pUsers42Extra, pUsers61, pUsersV2Extra, pUsersList}

\* "", "/" and "//": patterns without a non-empty segment
pEmpty == <<>>
pRoot == <<Slash>>
pSlashSlash == <<Slash, Slash>>
\* "/users/:e": hashes to the shard of "/users/:id"
sE == <<101>>
pUsersE == <<Slash>> \o sUsers \o <<Slash, Colon>> \o sE
EdgePatterns == {pEmpty, pRoot, pSlashSlash, pUsersE}

\* handler values; NilHandler is Go's nil HandlerFunc
NilHandler == "nil"
Handlers == {"h1", "h2"}

(***************************************************************************)
(* strings.Split(path, "/") : the parts between separators, empty parts    *)
(* included, always at least one part.                                     *)
(***************************************************************************)
RECURSIVE SplitFrom(_, _, _)
SplitFrom(s, i, acc) ==
  IF i > Len(s) THEN <<acc>>
  ELSE IF s[i] = Slash THEN <<acc>> \o SplitFrom(s, i + 1, <<>>)
  ELSE SplitFrom(s, i + 1, Append(acc, s[i]))

Split(s) == SplitFrom(s, 1, <<>>)

\* strings.HasPrefix(part, ":")
HasColonPrefix(part) == Len(part) > 0 /\ part[1] = Colon

\* part[1:]
DropFirst(part) == SubSeq(part, 2, Len(part))

(***************************************************************************)
(* getShard: 32-bit FNV-1 of the bytes, then int(sum) % methodShardCount.  *)
(* The 32-bit state is kept as two 16-bit halves <<hi, lo>>; the prime is  *)
(* 16777619 = 2^24 + 403.  int is 64 bits wide, so the conversion keeps    *)
(* the value and the remainder by 256 is the remainder of the low half.    *)
(***************************************************************************)
RECURSIVE XorBits(_, _, _)
XorBits(a, b, n) ==
  IF n = 0 THEN 0
  ELSE (((a % 2) + (b % 2)) % 2) + 2 * XorBits(a \div 2, b \div 2, n - 1)

fnvOffset == <<33052, 40389>>

fnvStep(h, byte) ==
  LET mulLo == h[2] * 403
      newLo == mulLo % 65536
      newHi == (h[1] * 403 + (mulLo \div 65536) + (h[2] % 256) * 256) % 65536
  IN  <<newHi, (newLo \div 256) * 256 + XorBits(newLo % 256, byte, 8)>>

RECURSIVE fnvSum(_, _, _)
fnvSum(s, i, h) ==
  IF i > Len(s) THEN h ELSE fnvSum(s, i + 1, fnvStep(h, s[i]))

getShard(path) == fnvSum(path, 1, fnvOffset)[2] % methodShardCount

\* cacheKey := method + ":" + path
CacheKey(method, path) == method \o <<Colon>> \o path

\* the shard index and the parts of each string the callers use
ShardOf == [p \in AddPatterns \cup FindPaths \cup EdgePatterns |-> getShard(p)]
PartsOf == [p \in AddPatterns \cup FindPaths \cup EdgePatterns |-> Split(p)]


(***************************************************************************)
(* State.                                                                  *)
(*   nodes        the RadixNodes below the shard roots.  A node is named   *)
(*                by <<method, shard index, keys from the root>>: children *)
(*                is a map keyed by segment text, so the key path names    *)
(*                the node.  Every shard root exists from NewRouter on.    *)
(*   hotCounter   shard.hotCounter of the shards that have counted a hit   *)
(*   hotCounters  the keys of Router.hotCounters (sync.Map)                *)
(*   hotItems     the hot cache: key -> cacheItem                          *)
(*   now          the clock, in units of cacheCleanupInterval              *)
(*   pool         the parameter maps sitting in the package's paramsPool   *)
(*   pm           the contents of the parameter maps, by map identity      *)
(*   th           each goroutine's position and locals                     *)
(*   ret          what each goroutine's last call returned to its caller   *)
(*   crashed      the process died of an unrecovered panic                 *)
(*   reg          history: the handler of the first AddRoute/batch entry   *)
(*                that was accepted for each <<method, pattern>>           *)
(*   addCount     history: hotCache.add executions per key                 *)
(*   batch        the BatchAddRoutes call in progress: its entries, the    *)
(*                methods not yet applied, the method being applied and    *)
(*                the errors sent on errChan (history: pre, the routes     *)
(*                accepted before the call)                                *)
(*   workers      the goroutines of the method being applied, by shard     *)
(*   tickReady    a tick waits in the channel of cleanupTicker             *)
(*   stopChan     "open" or "closed"                                       *)
(*   cw           the cleanupCache goroutine: its position, the bucket its *)
(*                pass is at, the time the pass read (history: pass, the   *)
(*                number of passes started)                                *)
(*   detached     the cacheItems a cleanup pass dropped from the cache     *)
(*                while a FindRoute call still holds the pointer get       *)
(*                returned (history: pass, the pass that dropped it)       *)
(*   bucketPtr    the identity of the map each cache bucket's items        *)
(*                pointer refers to                                        *)
(*   held         the node locks each calling goroutine holds, as          *)
(*                <<mode, node>> with mode "w" (Lock) or "r" (RLock).  In  *)
(*                the specifications without the step NodeLock a level of  *)
(*                a walk, from Lock to Unlock, is one step                 *)
(*   treeHits     history: the matches findRoute returned to FindRoute,    *)
(*                per cache key, counted up to the threshold               *)
(*   ctxPool      the Contexts sitting in contextPool (pool.go) and in     *)
(*                the three ctxPools (radix.go)                            *)
(*   ctxCur       the Context the request in progress holds                *)
(*   simd         a call of simdMatch: its arguments and its result        *)
(*   wm           each goroutine that calls WarmupCache: its position in   *)
(*                hotCache.add, the key, the item's lastAccess, and the    *)
(*                bucket's map as add read it (history: with, what else    *)
(*                was at work on the cache when the call began)            *)
(*   others       the number of hot cache entries under keys other than    *)
(*                the keys the callers of this model use                   *)
(*   shardCall    a call of getShard: the string, the width of int of the  *)
(*                build, the hash so far and the indices computed          *)
(*   eng          the Engine: the tree.Node tree of its routes, history:   *)
(*                the handler each (method, pattern) was registered with,  *)
(*                and the handler the last request was given               *)
(***************************************************************************)
VARIABLES nodes, hotCounter, hotCounters, hotItems, now, pool, pm, th, ret,
          crashed, reg, addCount, batch, workers,
          tickReady, stopChan, cw, detached, bucketPtr,
          held, treeHits, ctxPool, ctxCur, simd, wm, others, shardCall, eng

vars == <<nodes, hotCounter, hotCounters, hotItems, now, pool, pm, th, ret,
          crashed, reg, addCount, batch, workers,
          tickReady, stopChan, cw, detached, bucketPtr,
          held, treeHits, ctxPool, ctxCur, simd, wm, others, shardCall,
          eng>>

\* the Context pools and the request that holds a Context
ctxVars == <<ctxPool, ctxCur>>

\* what the steps of the router's operations leave alone unless they say
\* otherwise
\* the callers of WarmupCache and the entries they leave
sideVars == <<others, shardCall, eng>>

warmVars == <<wm, sideVars>>

auxVars == <<held, treeHits, ctxVars, simd, warmVars>>

batchVars == <<batch, workers>>

bgVars == <<tickReady, stopChan, cw, detached, bucketPtr>>

Threads == 1..NumThreads
MapIds == 1..MaxMaps

\* a nil map / no map
NoMap == 0
EmptyMap == [k \in {} |-> <<>>]

\* the root of a shard's tree, and Go's nil *RadixNode
RootKey == <<>>
NilNode == << <<>> >>

IdleThread ==
  [pc |-> "idle", method |-> <<>>, path |-> <<>>, handler |-> NilHandler,
   i |-> 0, cur |-> RootKey, child |-> NilNode, params |-> NoMap,
   hnd |-> NilHandler, dup |-> FALSE]

NoRet ==
  [kind |-> "none", method |-> <<>>, path |-> <<>>, handler |-> NilHandler,
   h |-> NilHandler, params |-> NoMap, bindings |-> EmptyMap,
   found |-> FALSE, err |-> "nil", panicked |-> FALSE, dup |-> FALSE,
   cached |-> FALSE, entries |-> <<>>, pre |-> {}]

NoBatch ==
  [entries |-> <<>>, left |-> {}, method |-> <<>>, errs |-> <<>>, pre |-> {}]

Min(S) == CHOOSE x \in S : \A y \in S : x <= y

\* the index of the first non-empty part at or after i, 0 when there is none
\* (the loops skip empty parts with continue)
RECURSIVE NextPart(_, _)
NextPart(parts, i) ==
  IF i > Len(parts) THEN 0
  ELSE IF parts[i] # <<>> THEN i
  ELSE NextPart(parts, i + 1)

\* the value of shard.hotCounter
Counter(method, shardIdx) ==
  IF <<method, shardIdx>> \in DOMAIN hotCounter
    THEN hotCounter[<<method, shardIdx>>] ELSE 0

\* the wildcard children of node k of tree <<method, shardIdx>>
WildcardChildren(method, shardIdx, k) ==
  {c \in DOMAIN nodes :
     /\ c[1] = method /\ c[2] = shardIdx
     /\ Len(c[3]) = Len(k) + 1
     /\ SubSeq(c[3], 1, Len(k)) = k
     /\ nodes[c].wildcard}

\* m1 with the entries of m2 written over it
Overlay(m1, m2) ==
  [k \in DOMAIN m1 \cup DOMAIN m2 |-> IF k \in DOMAIN m2 THEN m2[k] ELSE m1[k]]

(***************************************************************************)
(* sync.Pool.  Get hands out any pooled map or, when it finds none (the    *)
(* pool may drop objects at any collection), a new empty one.  Map         *)
(* identities that nothing references any more are reused for new maps.    *)
(***************************************************************************)
Referenced(thX, retX, itemsX) ==
  ({thX[t].params : t \in Threads} \cup {retX[t].params : t \in Threads}
     \cup {itemsX[k].params : k \in DOMAIN itemsX}) \ {NoMap}

\* every cacheItem some pointer refers to, by key
AllItems == hotItems @@ detached

FreeIds == MapIds \ (pool \cup Referenced(th, ret, AllItems))

GetChoices == pool \cup (IF FreeIds = {} THEN {} ELSE {Min(FreeIds)})

\* the contents a map has when Get returns it
GotContents(m) == IF m \in pool THEN pm[m] ELSE EmptyMap

\* maps that are garbage hold nothing
Normalize(pmX, poolX, thX, retX, itemsX) ==
  [m \in MapIds |->
     IF m \in poolX \cup Referenced(thX, retX, itemsX) THEN pmX[m] ELSE EmptyMap]

(***************************************************************************)
(* The cache buckets and the cleanup goroutine as NewRouter leaves them:   *)
(* every bucket points at its first, empty map, the ticker has not fired,  *)
(* stopChan is open and cleanupCache waits in its select.                  *)
(***************************************************************************)
Buckets == 0..(cacheShardCount - 1)

\* shardIdx := getShard(key) % cacheShardCount, for each key the callers use
BucketOfKey ==
  [k \in {CacheKey(m, p) : m \in Methods \cup {mTRACE},
                           p \in AddPatterns \cup FindPaths \cup EdgePatterns}
     |-> getShard(k) % cacheShardCount]

BucketOf(key) == BucketOfKey[key]

IdleCleaner == [pc |-> "select", b |-> 0, now |-> 0, pass |-> 0]

\* no Context is held
NoCtx == [kind |-> "none"]

\* no call of simdMatch
NoSimd ==
  [branches |-> <<>>, target |-> "", pc |-> "none", i |-> 0, result |-> 0]

\* no call of getShard
NoShardCall ==
  [pc |-> "none", s |-> <<>>, bits |-> 0, i |-> 0, h |-> fnvOffset,
   idx |-> 0, bucket |-> 0]

\* a tree.Node with no pattern and no handlers
EngNode(isWild) == [pattern |-> <<>>, handler |-> NilHandler, isWild |-> isWild]

\* NewEngine(): the root node alone, nothing registered, no request served
NewEngine ==
  [tree |-> (<<>> :> EngNode(FALSE)),
   routes |-> [k \in {} |-> NilHandler],
   resp |-> [method |-> <<>>, path |-> <<>>, handler |-> "none"]]

\* the pools of pool.go and radix.go
CtxPoolIds == {"contextPool", "ctxPools0", "ctxPools1", "ctxPools2"}

\* a goroutine that has not called WarmupCache.  After a call the key and
\* the item's time stay as history, with what was in progress in the cache
\* when the call began
IdleWarmer ==
  [pc |-> "idle", key |-> <<>>, at |-> 0, old |-> [k \in {} |-> 0],
   with |-> {}]

\* no goroutine holds a node lock, the Context pools are empty, nobody warms
AuxInit ==
  /\ held = [t \in Threads |-> {}]
  /\ ctxPool = [q \in CtxPoolIds |-> {}]
  /\ ctxCur = NoCtx
  /\ simd = NoSimd
  /\ wm = [t \in Threads |-> IdleWarmer]
  /\ others = 0
  /\ shardCall = NoShardCall
  /\ eng = NewEngine

BgInit ==
  /\ tickReady = FALSE
  /\ stopChan = "open"
  /\ cw = IdleCleaner
  /\ detached = [k \in {} |-> 0]
  /\ bucketPtr = [b \in Buckets |-> 0]

\* a goroutine is inside shardedCache.add for a key of bucket b, between
\* shard.mu.Lock() and the deferred Unlock
WriterHolds(b) ==
  \E t \in Threads :
    wm[t].pc \in {"w_load", "w_store"} /\ BucketOf(wm[t].key) = b

\* the cleanup pass or a writer holds shard.mu of bucket b
MutexHeld(b) == (cw.pc = "sweep" /\ cw.b = b) \/ WriterHolds(b)

Init ==
  /\ nodes = [k \in {} |-> 0]
  /\ hotCounter = [k \in {} |-> 0]
  /\ hotCounters = {}
  /\ hotItems = [k \in {} |-> 0]
  /\ now = 0
  /\ pool = {}
  /\ pm = [m \in MapIds |-> EmptyMap]
  /\ th = [t \in Threads |-> IdleThread]
  /\ ret = [t \in Threads |-> NoRet]
  /\ crashed = FALSE
  /\ reg = [k \in {} |-> 0]
  /\ addCount = [k \in {} |-> 0]
  /\ batch = NoBatch
  /\ workers = [k \in {} |-> 0]
  /\ BgInit
  /\ AuxInit
  /\ treeHits = [k \in {} |-> 0]

(***************************************************************************)
(* Router.AddRoute and RadixNode.addRoute.                                 *)
(***************************************************************************)
\* a router that has shards for any method string
SupportedMethodAny(method) == TRUE

\* r.methodShards[method] is present
SupportedMethod(method) == method \in Methods

\* the node addRoute creates for a part that has no child yet
NewNode(part) ==
  [handlers |-> [x \in {} |-> NilHandler],
   wildcard |-> HasColonPrefix(part),
   paramName |-> IF HasColonPrefix(part) THEN DropFirst(part) ELSE <<>>]

(***************************************************************************)
(* Node locks.  Each level of addRoute runs under the Lock of the node it  *)
(* looks the child up in, the setting of the handler under the Lock of the *)
(* leaf; findRoute takes the same locks with RLock.                        *)
(***************************************************************************)
NoLock == <<"none", <<<<>>, 0, RootKey>>>>

\* the lock the next step of goroutine t runs under
LockOf(t) ==
  LET s == ShardOf[th[t].path]
  IN  CASE th[t].pc = "ar_walk" -> <<"w", <<th[t].method, s, th[t].cur>>>>
        [] th[t].pc = "ar_leaf" -> <<"w", <<th[t].method, s, th[t].child>>>>
        [] th[t].pc = "fr_walk" -> <<"r", <<th[t].method, s, th[t].cur>>>>
        [] th[t].pc = "fr_leaf" -> <<"r", <<th[t].method, s, th[t].child>>>>
        [] OTHER -> NoLock

\* a step that ends without mu.Unlock() / mu.RUnlock()
UnlockSkipped(t) == held

\* mu.Unlock() / mu.RUnlock() of the lock the step ran under
Unlock(t) == [held EXCEPT ![t] = @ \ {LockOf(t)}]

\* AddRoute hands its result to the caller
AddReturn(t, err) ==
  /\ ret' = [ret EXCEPT ![t] =
       [NoRet EXCEPT !.kind = "add", !.method = th[t].method,
                     !.path = th[t].path, !.handler = th[t].handler,
                     !.err = err, !.dup = th[t].dup]]
  /\ th' = [th EXCEPT ![t] = IdleThread]
  /\ reg' = IF err = "nil" /\ <<th[t].method, th[t].path>> \notin DOMAIN reg
              THEN reg @@ (<<th[t].method, th[t].path>> :> th[t].handler)
              ELSE reg

\* the caller drops what its last call returned and calls AddRoute; the
\* method is looked up and the pattern is split
AddRouteCall(t, method, path, handler) ==
  /\ ~crashed
  /\ th[t].pc = "idle"
  /\ LET first == NextPart(PartsOf[path], 1)
         dup == <<method, path>> \in DOMAIN reg
         retDropped == [ret EXCEPT ![t] = NoRet]
     IN  /\ pm' = Normalize(pm, pool, th, retDropped, AllItems)
         /\ IF ~SupportedMethod(method)
              THEN /\ ret' = [ret EXCEPT ![t] =
                        [NoRet EXCEPT !.kind = "add", !.method = method,
                                      !.path = path, !.handler = handler,
                                      !.err = "unsupported", !.dup = dup]]
                   /\ UNCHANGED <<th, reg>>
              ELSE IF Len(PartsOf[path]) = 0
              THEN \* len(parts) == 0: "invalid path"
                   /\ ret' = [ret EXCEPT ![t] =
                        [NoRet EXCEPT !.kind = "add", !.method = method,
                                      !.path = path, !.handler = handler,
                                      !.err = "invalid", !.dup = dup]]
                   /\ UNCHANGED <<th, reg>>
              ELSE IF first = 0
              THEN \* every part is empty: the loop body never runs
                   /\ ret' = [ret EXCEPT ![t] =
                        [NoRet EXCEPT !.kind = "add", !.method = method,
                                      !.path = path, !.handler = handler,
                                      !.err = "nil", !.dup = dup]]
                   /\ reg' = IF dup THEN reg
                             ELSE reg @@ (<<method, path>> :> handler)
                   /\ UNCHANGED th
              ELSE /\ th' = [th EXCEPT ![t] =
                        [IdleThread EXCEPT !.pc = "ar_walk", !.method = method,
                                           !.path = path, !.handler = handler,
                                           !.i = first, !.dup = dup]]
                   /\ ret' = retDropped
                   /\ UNCHANGED reg
  /\ UNCHANGED <<batchVars, bgVars>>
  /\ UNCHANGED <<nodes, hotCounter, hotCounters, hotItems, now, pool,
                 crashed, addCount>>
  /\ UNCHANGED auxVars

\* a router that keeps one tree per method: every child goes to shard 0
addRouteLevelOneTree(method, path, cur, i) ==
  LET part == PartsOf[path][i]
      ck == <<method, 0, Append(cur, part)>>
  IN  IF ck \in DOMAIN nodes THEN nodes ELSE nodes @@ (ck :> NewNode(part))

\* one level of addRoute: under current.mu, the child keyed by the part is
\* looked up or created; the tree afterwards
addRouteLevel(method, path, cur, i) ==
  LET part == PartsOf[path][i]
      ck == <<method, ShardOf[path], Append(cur, part)>>
  IN  IF ck \in DOMAIN nodes THEN nodes ELSE nodes @@ (ck :> NewNode(part))

\* the last part of addRoute: under child.mu, a handler of the method is
\* already there
addRouteConflict(method, path, child) ==
  method \in DOMAIN nodes[<<method, ShardOf[path], child>>].handlers

\* the last part of addRoute: child.handlers[method] = handler
addRouteStore(method, path, child, handler) ==
  [nodes EXCEPT ![<<method, ShardOf[path], child>>].handlers =
     @ @@ (method :> handler)]

AddRouteWalk(t) ==
  /\ ~crashed
  /\ th[t].pc = "ar_walk"
  /\ LET parts == PartsOf[th[t].path]
         ck == Append(th[t].cur, parts[th[t].i])
         next == NextPart(parts, th[t].i + 1)
     IN  /\ nodes' = addRouteLevel(th[t].method, th[t].path, th[t].cur, th[t].i)
         /\ IF th[t].i = Len(parts)
              THEN /\ th' = [th EXCEPT ![t].pc = "ar_leaf", ![t].child = ck]
                   /\ UNCHANGED <<ret, reg>>
              ELSE IF next = 0
              THEN \* only empty parts follow: no handler is set
                   AddReturn(t, "nil")
              ELSE /\ th' = [th EXCEPT ![t].cur = ck, ![t].i = next]
                   /\ UNCHANGED <<ret, reg>>
  /\ UNCHANGED <<batchVars, bgVars>>
  /\ UNCHANGED <<hotCounter, hotCounters, hotItems, now, pool, pm,
                 crashed, addCount>>
  /\ held' = Unlock(t)
  /\ UNCHANGED <<treeHits, ctxVars, simd, warmVars>>

AddRouteLeaf(t) ==
  /\ ~crashed
  /\ th[t].pc = "ar_leaf"
  /\ IF addRouteConflict(th[t].method, th[t].path, th[t].child)
       THEN /\ AddReturn(t, "conflict")
            /\ UNCHANGED nodes
       ELSE /\ nodes' = addRouteStore(th[t].method, th[t].path, th[t].child,
                                      th[t].handler)
            /\ AddReturn(t, "nil")
  /\ UNCHANGED <<batchVars, bgVars>>
  /\ UNCHANGED <<hotCounter, hotCounters, hotItems, now, pool, pm,
                 crashed, addCount>>
  /\ held' = Unlock(t)
  /\ UNCHANGED <<treeHits, ctxVars, simd, warmVars>>

(***************************************************************************)
(* Router.FindRoute and RadixNode.findRoute.                               *)
(***************************************************************************)
\* FindRoute hands its result to the caller
FindResult(t, h, m, found, panicked, cached, pmX) ==
  [NoRet EXCEPT !.kind = "find", !.method = th[t].method, !.path = th[t].path,
                !.h = h, !.params = m,
                !.bindings = IF m = NoMap THEN EmptyMap ELSE pmX[m],
                !.found = found, !.panicked = panicked, !.cached = cached,
                !.pre = ret[t].pre]

\* findRoute returns not found, or panics: the deferred paramsPool.Put runs,
\* and FindRoute returns (nil, nil, false) or the panic goes on to its caller
FindFail(t, panicked) ==
  /\ pool' = pool \cup {th[t].params}
  /\ ret' = [ret EXCEPT ![t] =
       FindResult(t, NilHandler, NoMap, FALSE, panicked, FALSE, pm)]
  /\ th' = [th EXCEPT ![t] = IdleThread]

\* the caller drops what its last call returned and calls FindRoute; pre
\* keeps the registrations that had been accepted when the call began
FindRouteCall(t, method, path) ==
  /\ ~crashed
  /\ th[t].pc = "idle"
  /\ th' = [th EXCEPT ![t] =
       [IdleThread EXCEPT !.pc = "probe", !.method = method, !.path = path]]
  /\ ret' = [ret EXCEPT ![t] = [NoRet EXCEPT !.pre = DOMAIN reg]]
  /\ pm' = Normalize(pm, pool, th', ret', AllItems)
  /\ UNCHANGED <<batchVars, bgVars>>
  /\ UNCHANGED <<nodes, hotCounter, hotCounters, hotItems, now, pool,
                 crashed, reg, addCount>>
  /\ UNCHANGED auxVars

\* r.hotCache.get(cacheKey), which waits for shard.mu.RLock() of the key's
\* bucket; on a miss, the lookup of r.methodShards[method]
HotProbe(t) ==
  /\ ~crashed
  /\ th[t].pc = "probe"
  /\ ~MutexHeld(BucketOf(CacheKey(th[t].method, th[t].path)))
  /\ IF CacheKey(th[t].method, th[t].path) \in DOMAIN hotItems
       THEN /\ th' = [th EXCEPT ![t].pc = "hit_touch"]
            /\ UNCHANGED ret
       ELSE IF ~SupportedMethod(th[t].method)
       THEN /\ ret' = [ret EXCEPT ![t] =
                 FindResult(t, NilHandler, NoMap, FALSE, FALSE, FALSE, pm)]
            /\ th' = [th EXCEPT ![t] = IdleThread]
       ELSE /\ th' = [th EXCEPT ![t].pc = "fr_get"]
            /\ UNCHANGED ret
  /\ UNCHANGED <<batchVars, bgVars>>
  /\ UNCHANGED <<nodes, hotCounter, hotCounters, hotItems, now, pool, pm,
                 crashed, reg, addCount>>
  /\ UNCHANGED auxVars

\* the hit path: the item's last access is stamped, through the pointer
\* get returned, whether or not the cache still holds the item
HotTouch(t) ==
  /\ ~crashed
  /\ th[t].pc = "hit_touch"
  /\ LET key == CacheKey(th[t].method, th[t].path)
     IN  IF key \in DOMAIN hotItems
           THEN /\ hotItems' = [hotItems EXCEPT ![key].lastAccess = now]
                /\ UNCHANGED detached
           ELSE /\ detached' = [detached EXCEPT ![key].lastAccess = now]
                /\ UNCHANGED hotItems
  /\ th' = [th EXCEPT ![t].pc = "hit_copy"]
  /\ UNCHANGED batchVars
  /\ UNCHANGED <<tickReady, stopChan, cw, bucketPtr>>
  /\ UNCHANGED <<nodes, hotCounter, hotCounters, now, pool, pm, ret,
                 crashed, reg, addCount>>
  /\ UNCHANGED auxVars

\* the keys of the cacheItems the FindRoute calls in progress hold
HeldKeys(thX) ==
  {CacheKey(thX[t].method, thX[t].path) :
     t \in {u \in Threads : thX[u].pc \in {"hit_touch", "hit_copy"}}}

\* a dropped item lives for as long as a call holds its pointer
StillHeld(items, thX) ==
  [k \in DOMAIN items \cap HeldKeys(thX) |-> items[k]]

\* the hit path: a map from the pool, as it is, receives the item's
\* bindings and is returned with the item's handler
HotCopy(t) ==
  /\ ~crashed
  /\ th[t].pc = "hit_copy"
  /\ LET item == AllItems[CacheKey(th[t].method, th[t].path)]
         src == IF item.params = NoMap THEN EmptyMap ELSE pm[item.params]
     IN  \E m \in GetChoices :
           /\ pool' = pool \ {m}
           /\ pm' = [pm EXCEPT ![m] = Overlay(GotContents(m), src)]
           /\ ret' = [ret EXCEPT ![t] =
                FindResult(t, item.handler, m, TRUE, FALSE, TRUE, pm')]
  /\ th' = [th EXCEPT ![t] = IdleThread]
  /\ detached' = StillHeld(detached, th')
  /\ UNCHANGED batchVars
  /\ UNCHANGED <<tickReady, stopChan, cw, bucketPtr>>
  /\ UNCHANGED <<nodes, hotCounter, hotCounters, hotItems, now,
                 crashed, reg, addCount>>
  /\ UNCHANGED auxVars

\* findRoute takes a map from the pool and empties it; a path without a
\* non-empty part runs no loop body and is not found
FindGet(t) ==
  /\ ~crashed
  /\ th[t].pc = "fr_get"
  /\ LET first == NextPart(PartsOf[th[t].path], 1)
     IN  \E m \in GetChoices :
           /\ pm' = [pm EXCEPT ![m] = EmptyMap]
           /\ IF first = 0
                THEN /\ pool' = pool \cup {m}
                     /\ ret' = [ret EXCEPT ![t] =
                          FindResult(t, NilHandler, NoMap, FALSE, FALSE, FALSE, pm)]
                     /\ th' = [th EXCEPT ![t] = IdleThread]
                ELSE /\ pool' = pool \ {m}
                     /\ th' = [th EXCEPT ![t].pc = "fr_walk", ![t].params = m,
                                         ![t].i = first, ![t].cur = RootKey]
                     /\ UNCHANGED ret
  /\ UNCHANGED <<batchVars, bgVars>>
  /\ UNCHANGED <<nodes, hotCounter, hotCounters, hotItems, now,
                 crashed, reg, addCount>>
  /\ UNCHANGED auxVars

\* where the walk goes after the part at index i was matched by `child`
\* (the outer variable of the loop body, nil after a wildcard match)
FindAdvance(t, child) ==
  LET parts == PartsOf[th[t].path]
      next == NextPart(parts, th[t].i + 1)
  IN  IF th[t].i = Len(parts)
        THEN /\ th' = [th EXCEPT ![t].pc = "fr_leaf", ![t].child = child]
             /\ UNCHANGED <<pool, ret>>
        ELSE IF next = 0
        THEN FindFail(t, FALSE)
        ELSE /\ th' = [th EXCEPT ![t].cur = child, ![t].i = next]
             /\ UNCHANGED <<pool, ret>>

\* a lookup that takes a wildcard child of the node when there is one
ChildExistsUnlessWildcard(ck, wild) == ck \in DOMAIN nodes /\ wild = {}

\* child, exists := current.children[part]
ChildExists(ck, wild) == ck \in DOMAIN nodes

\* one level: under current.mu.RLock, the child keyed by the part; without
\* one, the first wildcard child the map iteration yields binds its name
\* to the part, but only the loop's own `child` is set by it
FindWalk(t) ==
  /\ ~crashed
  /\ th[t].pc = "fr_walk"
  /\ LET part == PartsOf[th[t].path][th[t].i]
         shardIdx == ShardOf[th[t].path]
         ck == <<th[t].method, shardIdx, Append(th[t].cur, part)>>
         wild == WildcardChildren(th[t].method, shardIdx, th[t].cur)
     IN  IF th[t].cur = NilNode
           THEN \* current.mu.RLock() on a nil node
                /\ FindFail(t, TRUE)
                /\ UNCHANGED pm
           ELSE IF ChildExists(ck, wild)
           THEN /\ FindAdvance(t, ck[3])
                /\ UNCHANGED pm
           ELSE IF wild = {}
           THEN /\ FindFail(t, FALSE)
                /\ UNCHANGED pm
           ELSE \E w \in wild :
                  /\ pm' = [pm EXCEPT ![th[t].params] =
                              Overlay(@, (nodes[w].paramName :> part))]
                  /\ FindAdvance(t, NilNode)
  /\ UNCHANGED <<batchVars, bgVars>>
  /\ UNCHANGED <<nodes, hotCounter, hotCounters, hotItems, now,
                 crashed, reg, addCount>>
  /\ held' = Unlock(t)
  /\ UNCHANGED <<treeHits, ctxVars, simd, warmVars>>

\* the last part: under child.mu.RLock, the handler of the method; the map
\* goes back to the pool as findRoute returns it
FindLeaf(t) ==
  /\ ~crashed
  /\ th[t].pc = "fr_leaf"
  /\ LET ck == <<th[t].method, ShardOf[th[t].path], th[t].child>>
     IN  IF th[t].child = NilNode
           THEN \* child.mu.RLock() on a nil node
                FindFail(t, TRUE)
           ELSE IF th[t].method \notin DOMAIN nodes[ck].handlers
           THEN FindFail(t, FALSE)
           ELSE /\ pool' = pool \cup {th[t].params}
                /\ th' = [th EXCEPT ![t].pc = "promo_count",
                                    ![t].hnd = nodes[ck].handlers[th[t].method]]
                /\ UNCHANGED ret
  /\ UNCHANGED <<batchVars, bgVars>>
  /\ UNCHANGED <<nodes, hotCounter, hotCounters, hotItems, now, pm,
                 crashed, reg, addCount>>
  /\ held' = Unlock(t)
  /\ UNCHANGED <<treeHits, ctxVars, simd, warmVars>>

\* FindRoute returns the match of the tree
FindFound(t) ==
  /\ ret' = [ret EXCEPT ![t] =
       FindResult(t, th[t].hnd, th[t].params, TRUE, FALSE, FALSE, pm')]
  /\ th' = [th EXCEPT ![t] = IdleThread]

\* one more match of the key, counted up to the threshold
CountHit(key) ==
  LET n == IF key \in DOMAIN treeHits THEN treeHits[key] ELSE 0
  IN  IF n >= hotCacheThreshold THEN treeHits ELSE (key :> (n + 1)) @@ treeHits

\* count := atomic.AddUint64(&sh.hotCounter, 1).  The counter is only ever
\* compared with the threshold, so it is kept up to the threshold.
PromoCount(t) ==
  /\ ~crashed
  /\ th[t].pc = "promo_count"
  /\ pm' = pm
  /\ LET sk == <<th[t].method, ShardOf[th[t].path]>>
         count == Counter(sk[1], sk[2]) + 1
     IN  /\ hotCounter' = IF count > hotCacheThreshold THEN hotCounter
                          ELSE (sk :> count) @@ hotCounter
         /\ IF count >= hotCacheThreshold
              THEN /\ th' = [th EXCEPT ![t].pc = "promo_los"]
                   /\ UNCHANGED ret
              ELSE FindFound(t)
  /\ UNCHANGED <<batchVars, bgVars>>
  /\ UNCHANGED <<nodes, hotCounters, hotItems, now, pool,
                 crashed, reg, addCount>>
  /\ treeHits' = CountHit(CacheKey(th[t].method, th[t].path))
  /\ UNCHANGED <<held, ctxVars, simd, warmVars>>

\* a LoadOrStore that never reports the key as present
LoadedNever(key) == FALSE

\* r.hotCounters.LoadOrStore(cacheKey, true): whether the key was there
Loaded(key) == key \in hotCounters

PromoLoadOrStore(t) ==
  /\ ~crashed
  /\ th[t].pc = "promo_los"
  /\ pm' = pm
  /\ LET key == CacheKey(th[t].method, th[t].path)
     IN  /\ hotCounters' = hotCounters \cup {key}
         /\ IF Loaded(key)
              THEN FindFound(t)
              ELSE /\ th' = [th EXCEPT ![t].pc = "promo_add"]
                   /\ UNCHANGED ret
  /\ UNCHANGED <<batchVars, bgVars>>
  /\ UNCHANGED <<nodes, hotCounter, hotItems, now, pool,
                 crashed, reg, addCount>>
  /\ UNCHANGED auxVars

\* the cacheItem of a promotion
NewItem(handler, m) == [handler |-> handler, params |-> m, lastAccess |-> now]

\* a writer that stores into the map the bucket points at
SameMap(b) == bucketPtr[b]

\* newItems := make(map[string]*cacheItem): a map other than the one the
\* bucket points at
FreshMap(b) == 1 - bucketPtr[b]

\* the item gets a map from the pool, as it is, and the match's bindings;
\* hotCache.add, under the bucket's mutex, copies the bucket's map into a
\* new one, sets the key in it and stores its address in the bucket
PromoAdd(t) ==
  /\ ~crashed
  /\ th[t].pc = "promo_add"
  /\ LET key == CacheKey(th[t].method, th[t].path)
     IN  /\ ~MutexHeld(BucketOf(key))
         /\ \E m \in GetChoices :
              /\ pool' = pool \ {m}
              /\ pm' = [pm EXCEPT ![m] =
                          Overlay(GotContents(m), pm[th[t].params])]
              /\ hotItems' = (key :> NewItem(th[t].hnd, m)) @@ hotItems
              /\ addCount' = (key :> (IF key \in DOMAIN addCount
                                        THEN addCount[key] + 1 ELSE 1))
                                @@ addCount
         /\ bucketPtr' = [bucketPtr EXCEPT ![BucketOf(key)] = FreshMap(BucketOf(key))]
  /\ FindFound(t)
  /\ UNCHANGED batchVars
  /\ UNCHANGED <<tickReady, stopChan, cw, detached>>
  /\ UNCHANGED <<nodes, hotCounter, hotCounters, now, crashed, reg>>
  /\ UNCHANGED auxVars

(***************************************************************************)
(* Spec: one goroutine calls AddRoute and FindRoute on a new router.       *)
(***************************************************************************)
Main == Min(Threads)

CallMethods == {mGET, mTRACE}

AddRouteAny ==
  \E m \in CallMethods, p \in AddPatterns, h \in Handlers :
    AddRouteCall(Main, m, p, h)

FindRouteAny ==
  \E m \in CallMethods, p \in FindPaths :
    /\ Counter(m, ShardOf[p]) < MaxHits
    /\ FindRouteCall(Main, m, p)

Next ==
  \/ AddRouteAny
  \/ AddRouteWalk(Main)
  \/ AddRouteLeaf(Main)
  \/ FindRouteAny
  \/ HotProbe(Main)
  \/ FindGet(Main)
  \/ FindWalk(Main)
  \/ FindLeaf(Main)
  \/ PromoCount(Main)

Spec == Init /\ [][Next]_vars

(***************************************************************************)
(* The callers of FindRoute.  A caller owns the map it was given and may   *)
(* write it until its next call (ServeHTTP stores it in ctx.Params and     *)
(* hands the context to the handler).                                      *)
(***************************************************************************)
CallerMutate(t) ==
  /\ ~crashed
  /\ th[t].pc = "idle"
  /\ ret[t].params # NoMap
  /\ LET m == ret[t].params
     IN  \/ /\ sK \notin DOMAIN pm[m]
            /\ pm' = [pm EXCEPT ![m] = Overlay(@, (sK :> sV))]
         \/ \E k \in DOMAIN pm[m] :
              pm' = [pm EXCEPT ![m] = [x \in DOMAIN pm[m] \ {k} |-> pm[m][x]]]
  /\ UNCHANGED <<batchVars, bgVars>>
  /\ UNCHANGED <<nodes, hotCounter, hotCounters, hotItems, now, pool, th, ret,
                 crashed, reg, addCount>>
  /\ UNCHANGED auxVars

\* goroutine t's next step reads or writes map m
AccessesNext(t, m) ==
  \/ th[t].pc = "fr_get" /\ m \in pool
  \/ th[t].pc = "fr_walk" /\ th[t].params = m
  \/ th[t].pc = "promo_add" /\ (th[t].params = m \/ m \in pool)
  \/ /\ th[t].pc = "hit_copy"
     /\ \/ m \in pool
        \/ LET key == CacheKey(th[t].method, th[t].path)
           IN  key \in DOMAIN hotItems /\ hotItems[key].params = m

\* Go maps are not safe for concurrent use: when a caller writes its map
\* while FindRoute, in another goroutine, reads or writes the same map, the
\* runtime may end the process ("fatal error: concurrent map writes")
MapRaceFault ==
  /\ ~crashed
  /\ \E t \in Threads, u \in Threads :
       /\ t # u
       /\ th[t].pc = "idle"
       /\ ret[t].params # NoMap
       /\ AccessesNext(u, ret[t].params)
  /\ crashed' = TRUE
  /\ UNCHANGED <<batchVars, bgVars>>
  /\ UNCHANGED <<nodes, hotCounter, hotCounters, hotItems, now, pool, pm, th,
                 ret, reg, addCount>>
  /\ UNCHANGED auxVars

(***************************************************************************)
(* SpecHot: NumThreads goroutines look up one registered route at the      *)
(* promotion threshold.  The initial state is the router after             *)
(* AddRoute(GET, "/users/list", h1) and hotCacheThreshold - 2 lookups of   *)
(* the route by one goroutine, the pool emptied by a collection.           *)
(***************************************************************************)
HotRouteNodes ==
  LET s == ShardOf[pUsersList]
  IN  (<<mGET, s, <<sUsers>>>> :> NewNode(sUsers))
        @@ (<<mGET, s, <<sUsers, sList>>>> :>
              [NewNode(sList) EXCEPT !.handlers = (mGET :> "h1")])

InitHot ==
  /\ nodes = HotRouteNodes
  /\ hotCounter = (<<mGET, ShardOf[pUsersList]>> :> (hotCacheThreshold - 2))
  /\ hotCounters = {}
  /\ hotItems = [k \in {} |-> 0]
  /\ now = 0
  /\ pool = {}
  /\ pm = [m \in MapIds |-> EmptyMap]
  /\ th = [t \in Threads |-> IdleThread]
  /\ ret = [t \in Threads |-> NoRet]
  /\ crashed = FALSE
  /\ reg = (<<mGET, pUsersList>> :> "h1")
  /\ addCount = [k \in {} |-> 0]
  /\ batch = NoBatch
  /\ workers = [k \in {} |-> 0]
  /\ BgInit
  /\ AuxInit
  /\ treeHits = (CacheKey(mGET, pUsersList) :> (hotCacheThreshold - 2))

NextHot ==
  \/ \E t \in Threads :
       \/ FindRouteCall(t, mGET, pUsersList)
       \/ HotProbe(t)
       \/ HotTouch(t)
       \/ HotCopy(t)
       \/ FindGet(t)
       \/ FindWalk(t)
       \/ FindLeaf(t)
       \/ PromoCount(t)
       \/ PromoLoadOrStore(t)
       \/ PromoAdd(t)
       \/ CallerMutate(t)
  \/ MapRaceFault

SpecHot == InitHot /\ [][NextHot]_vars

(***************************************************************************)
(* SpecSeq: one goroutine looks up the route of SpecHot and a path that    *)
(* has no route, again and again, and writes the maps it is given.         *)
(***************************************************************************)
SeqPaths == {pUsersList, pUsers42}

NextSeq ==
  \/ \E p \in SeqPaths : FindRouteCall(Main, mGET, p)
  \/ HotProbe(Main)
  \/ HotTouch(Main)
  \/ HotCopy(Main)
  \/ FindGet(Main)
  \/ FindWalk(Main)
  \/ FindLeaf(Main)
  \/ PromoCount(Main)
  \/ PromoLoadOrStore(Main)
  \/ PromoAdd(Main)
  \/ CallerMutate(Main)

SpecSeq == InitHot /\ [][NextSeq]_vars

(***************************************************************************)
(* Router.BatchAddRoutes.  The entries are grouped by method; the methods  *)
(* are taken in the order the map iteration yields.  For one method the    *)
(* entries are grouped by shard and one goroutine per shard applies its    *)
(* entries in order, sending the first error on errChan, which has room    *)
(* for one error per goroutine.                                            *)
(***************************************************************************)
Entry(method, path, handler) ==
  [method |-> method, path |-> path, handler |-> handler]

\* a grouping that keeps the first entry of a shard only
WorkerQueueFirst(entries, method, shardIdx) ==
  LET q == SelectSeq(entries,
                     LAMBDA e : e.method = method /\ ShardOf[e.path] = shardIdx)
  IN  IF q = <<>> THEN q ELSE <<Head(q)>>

\* the entries of one method and one shard, in the order of the batch
WorkerQueue(entries, method, shardIdx) ==
  SelectSeq(entries,
            LAMBDA e : e.method = method /\ ShardOf[e.path] = shardIdx)

NewWorker(queue) ==
  [pc |-> "start", queue |-> queue, i |-> 0, cur |-> RootKey, child |-> NilNode]

\* the caller drops what its last call returned and calls BatchAddRoutes;
\* groupedRoutes is built
BatchCall(t, entries) ==
  /\ ~crashed
  /\ th[t].pc = "idle"
  /\ batch = NoBatch
  /\ batch' = [entries |-> entries,
               left |-> {entries[j].method : j \in 1..Len(entries)},
               method |-> <<>>, errs |-> <<>>, pre |-> DOMAIN reg]
  /\ th' = [th EXCEPT ![t] = [IdleThread EXCEPT !.pc = "batch_pick"]]
  /\ ret' = [ret EXCEPT ![t] = NoRet]
  /\ pm' = Normalize(pm, pool, th', ret', AllItems)
  /\ UNCHANGED <<nodes, hotCounter, hotCounters, hotItems, now, pool,
                 crashed, reg, addCount, workers>>
  /\ UNCHANGED bgVars
  /\ UNCHANGED auxVars

\* BatchAddRoutes hands its result to the caller
BatchReturn(t, err, path) ==
  /\ ret' = [ret EXCEPT ![t] =
       [NoRet EXCEPT !.kind = "batch", !.entries = batch.entries,
                     !.err = err, !.path = path, !.pre = batch.pre]]
  /\ th' = [th EXCEPT ![t] = IdleThread]
  /\ batch' = NoBatch
  /\ workers' = [k \in {} |-> 0]

\* the next method of groupedRoutes: its entries are grouped by shard and
\* the goroutines are started; with no method left the call returns nil
BatchPick(t) ==
  /\ ~crashed
  /\ th[t].pc = "batch_pick"
  /\ IF batch.left = {}
       THEN BatchReturn(t, "nil", <<>>)
       ELSE \E method \in batch.left :
              /\ batch' = [batch EXCEPT !.method = method,
                                        !.left = @ \ {method}, !.errs = <<>>]
              /\ workers' =
                   [s \in {ShardOf[batch.entries[j].path] :
                             j \in {x \in 1..Len(batch.entries) :
                                      batch.entries[x].method = method}} |->
                      NewWorker(WorkerQueue(batch.entries, method, s))]
              /\ th' = [th EXCEPT ![t].pc = "batch_wait"]
              /\ UNCHANGED ret
  /\ UNCHANGED <<nodes, hotCounter, hotCounters, hotItems, now, pool, pm,
                 crashed, reg, addCount>>
  /\ UNCHANGED bgVars
  /\ UNCHANGED auxVars

\* sh := r.methodShards[method][shardIdx] in the goroutine: for a method
\* the router has no shards for, an index into a nil slice; nothing
\* recovers the panic of a goroutine, so the process dies
WorkerStart(s) ==
  /\ ~crashed
  /\ s \in DOMAIN workers
  /\ workers[s].pc = "start"
  /\ IF SupportedMethod(batch.method)
       THEN /\ workers' = [workers EXCEPT ![s].pc = "next"]
            /\ UNCHANGED crashed
       ELSE /\ crashed' = TRUE
            /\ UNCHANGED workers
  /\ UNCHANGED <<nodes, hotCounter, hotCounters, hotItems, now, pool, pm,
                 th, ret, reg, addCount, batch>>
  /\ UNCHANGED bgVars
  /\ UNCHANGED auxVars

\* an entry was applied without error
Accepted(e) ==
  IF <<e.method, e.path>> \in DOMAIN reg THEN reg
  ELSE reg @@ (<<e.method, e.path>> :> e.handler)

\* the goroutine takes its next entry and splits the pattern; after the
\* last entry it is done
WorkerNext(s) ==
  /\ ~crashed
  /\ s \in DOMAIN workers
  /\ workers[s].pc = "next"
  /\ IF workers[s].queue = <<>>
       THEN /\ workers' = [workers EXCEPT ![s].pc = "done"]
            /\ UNCHANGED reg
       ELSE LET e == Head(workers[s].queue)
                first == NextPart(PartsOf[e.path], 1)
            IN  IF first = 0
                  THEN \* every part is empty: addRoute returns nil
                       /\ workers' = [workers EXCEPT ![s].queue = Tail(@)]
                       /\ reg' = Accepted(e)
                  ELSE /\ workers' = [workers EXCEPT ![s].pc = "walk",
                                        ![s].i = first, ![s].cur = RootKey]
                       /\ UNCHANGED reg
  /\ UNCHANGED <<nodes, hotCounter, hotCounters, hotItems, now, pool, pm,
                 th, ret, crashed, addCount, batch>>
  /\ UNCHANGED bgVars
  /\ UNCHANGED auxVars

\* one level of the entry's addRoute
WorkerWalk(s) ==
  /\ ~crashed
  /\ s \in DOMAIN workers
  /\ workers[s].pc = "walk"
  /\ LET w == workers[s]
         e == Head(w.queue)
         parts == PartsOf[e.path]
         ck == Append(w.cur, parts[w.i])
         next == NextPart(parts, w.i + 1)
     IN  /\ nodes' = addRouteLevel(e.method, e.path, w.cur, w.i)
         /\ IF w.i = Len(parts)
              THEN /\ workers' = [workers EXCEPT ![s].pc = "leaf",
                                                 ![s].child = ck]
                   /\ UNCHANGED reg
              ELSE IF next = 0
              THEN /\ workers' = [workers EXCEPT ![s].pc = "next",
                                                 ![s].queue = Tail(@)]
                   /\ reg' = Accepted(e)
              ELSE /\ workers' = [workers EXCEPT ![s].cur = ck, ![s].i = next]
                   /\ UNCHANGED reg
  /\ UNCHANGED <<hotCounter, hotCounters, hotItems, now, pool, pm,
                 th, ret, crashed, addCount, batch>>
  /\ UNCHANGED bgVars
  /\ UNCHANGED auxVars

\* the last part of the entry's addRoute; an error goes to errChan and
\* ends the goroutine
WorkerLeaf(s) ==
  /\ ~crashed
  /\ s \in DOMAIN workers
  /\ workers[s].pc = "leaf"
  /\ LET w == workers[s]
         e == Head(w.queue)
     IN  IF addRouteConflict(e.method, e.path, w.child)
           THEN /\ batch' = [batch EXCEPT !.errs = Append(@, e.path)]
                /\ workers' = [workers EXCEPT ![s].pc = "done"]
                /\ UNCHANGED <<nodes, reg>>
           ELSE /\ nodes' = addRouteStore(e.method, e.path, w.child, e.handler)
                /\ workers' = [workers EXCEPT ![s].pc = "next",
                                              ![s].queue = Tail(@)]
                /\ reg' = Accepted(e)
                /\ UNCHANGED batch
  /\ UNCHANGED <<hotCounter, hotCounters, hotItems, now, pool, pm,
                 th, ret, crashed, addCount>>
  /\ UNCHANGED bgVars
  /\ UNCHANGED auxVars

\* wg.Wait(), close(errChan), <-errChan: the first error sent, or nil from
\* the closed channel and on to the next method
BatchJoin(t) ==
  /\ ~crashed
  /\ th[t].pc = "batch_wait"
  /\ \A s \in DOMAIN workers : workers[s].pc = "done"
  /\ IF batch.errs # <<>>
       THEN BatchReturn(t, "conflict", Head(batch.errs))
       ELSE /\ th' = [th EXCEPT ![t].pc = "batch_pick"]
            /\ workers' = [k \in {} |-> 0]
            /\ UNCHANGED <<ret, batch>>
  /\ UNCHANGED <<nodes, hotCounter, hotCounters, hotItems, now, pool, pm,
                 crashed, reg, addCount>>
  /\ UNCHANGED bgVars
  /\ UNCHANGED auxVars

(***************************************************************************)
(* SpecBatch: one goroutine calls BatchAddRoutes and AddRoute on a new     *)
(* router.                                                                 *)
(***************************************************************************)
Batches ==
  {<<Entry(mGET, pUsersList, "h1"), Entry(mGET, pUsersId, "h2")>>,
   <<Entry(mGET, pUsersList, "h1"), Entry(mGET, pUsersList, "h2")>>,
   <<Entry(mGET, pUsersId, "h1"), Entry(mTRACE, pUsersList, "h2")>>,
   <<Entry(mTRACE, pUsersList, "h1")>>,
   <<Entry(mGET, pUsersSlash, "h1"), Entry(mGET, pUsersSlash, "h2")>>,
   <<Entry(mGET, pUsersSlash, "h1"), Entry(mGET, pUsersList, "h2")>>,
   <<Entry(mGET, pUsersId, "h1"), Entry(mGET, pUsersE, "h2")>>}

BatchAny == \E b \in Batches : BatchCall(Main, b)

AddOne ==
  \E p \in {pUsersList, pUsersId, pUsersE} : AddRouteCall(Main, mGET, p, "h1")

NextBatch ==
  \/ BatchAny
  \/ BatchPick(Main)
  \/ \E s \in DOMAIN workers : WorkerStart(s)
  \/ \E s \in DOMAIN workers : WorkerNext(s)
  \/ \E s \in DOMAIN workers : WorkerWalk(s)
  \/ \E s \in DOMAIN workers : WorkerLeaf(s)
  \/ BatchJoin(Main)
  \/ AddOne
  \/ AddRouteWalk(Main)
  \/ AddRouteLeaf(Main)

SpecBatch == Init /\ [][NextBatch]_vars

(***************************************************************************)
(* SpecParam: NumThreads goroutines look up paths of a registered          *)
(* parameter route.  The initial state is the router after                 *)
(* AddRoute(GET, "/users/:id", h1).                                        *)
(***************************************************************************)
ParamRouteNodes ==
  LET s == ShardOf[pUsersId]
      idPart == <<Colon>> \o sId
  IN  (<<mGET, s, <<sUsers>>>> :> NewNode(sUsers))
        @@ (<<mGET, s, <<sUsers, idPart>>>> :>
              [NewNode(idPart) EXCEPT !.handlers = (mGET :> "h1")])

InitParam ==
  /\ nodes = ParamRouteNodes
  /\ hotCounter = [k \in {} |-> 0]
  /\ hotCounters = {}
  /\ hotItems = [k \in {} |-> 0]
  /\ now = 0
  /\ pool = {}
  /\ pm = [m \in MapIds |-> EmptyMap]
  /\ th = [t \in Threads |-> IdleThread]
  /\ ret = [t \in Threads |-> NoRet]
  /\ crashed = FALSE
  /\ reg = (<<mGET, pUsersId>> :> "h1")
  /\ addCount = [k \in {} |-> 0]
  /\ batch = NoBatch
  /\ workers = [k \in {} |-> 0]
  /\ BgInit
  /\ AuxInit
  /\ treeHits = [k \in {} |-> 0]

ParamPaths == {pUsers42, pUsers61}

NextParam ==
  \E t \in Threads :
    \/ \E p \in ParamPaths : FindRouteCall(t, mGET, p)
    \/ HotProbe(t)
    \/ FindGet(t)
    \/ FindWalk(t)
    \/ FindLeaf(t)

SpecParam == InitParam /\ [][NextParam]_vars

(***************************************************************************)
(* What the properties speak of.                                           *)
(***************************************************************************)
\* the path matches the pattern segment by segment: literal segments are
\* equal, a ':'-segment matches exactly one non-empty path segment
Matches(pattern, path) ==
  LET pp == PartsOf[pattern]
      qq == PartsOf[path]
  IN  /\ Len(pp) = Len(qq)
      /\ \A i \in 1..Len(pp) :
           IF HasColonPrefix(pp[i]) THEN qq[i] # <<>> ELSE pp[i] = qq[i]

\* the bindings of a match: the name of every ':'-segment to the path's
\* segment at its place
Bindings(pattern, path) ==
  LET pp == PartsOf[pattern]
      qq == PartsOf[path]
      at == {i \in 1..Len(pp) : HasColonPrefix(pp[i])}
  IN  [name \in {DropFirst(pp[i]) : i \in at} |->
         qq[CHOOSE i \in at : DropFirst(pp[i]) = name]]

\* the registered patterns of the method that the path matches
MatchingRoutes(method, path) ==
  {k \in DOMAIN reg : k[1] = method /\ Matches(k[2], path)}

\* the non-empty segments of a path
Segs(path) == SelectSeq(PartsOf[path], LAMBDA x : x # <<>>)

\* the nodes of tree <<method, shardIdx>> a lookup of the segments can end
\* at from node cur: at each level the literal child when there is one,
\* otherwise a wildcard child
RECURSIVE Reach(_, _, _, _)
Reach(method, shardIdx, segs, cur) ==
  IF segs = <<>> THEN {cur}
  ELSE LET lit == Append(cur, Head(segs))
           wild == {c[3] : c \in WildcardChildren(method, shardIdx, cur)}
           nxt == IF <<method, shardIdx, lit>> \in DOMAIN nodes
                    THEN {lit} ELSE wild
       IN  UNION {Reach(method, shardIdx, Tail(segs), n) : n \in nxt}

\* some segment has neither a literal nor a wildcard child, or the node
\* reached at the last segment has no handler of the method
NoMatch(method, path) ==
  \A n \in Reach(method, ShardOf[path], Segs(path), RootKey) :
    \/ n = RootKey
    \/ method \notin DOMAIN nodes[<<method, ShardOf[path], n>>].handlers

\* goroutine t holds the result of a FindRoute call
Returned(t) == ret[t].kind = "find"

HotKey == CacheKey(mGET, pUsersList)

(***************************************************************************)
(* C1: for every registered (method, pattern) and every path matching the  *)
(* pattern segment by segment, FindRoute(method, path) returns found, the  *)
(* handler registered for the pattern and a map binding every ':'-segment  *)
(* name to the path's segment.  (Stated for paths that match one           *)
(* registered pattern only.)                                               *)
(***************************************************************************)
C1_RegisteredRouteFound ==
  \A t \in Threads :
    Returned(t) =>
      \A k \in MatchingRoutes(ret[t].method, ret[t].path) :
        MatchingRoutes(ret[t].method, ret[t].path) = {k} =>
          /\ ~ret[t].panicked
          /\ ret[t].found
          /\ ret[t].h = reg[k]
          /\ ret[t].bindings = Bindings(k[2], ret[t].path)

(***************************************************************************)
(* C2: an AddRoute of a (method, pattern) that was registered before       *)
(* returns RouteConflict, and no step of the call changes a tree or the    *)
(* hot cache.                                                              *)
(***************************************************************************)
C2_SecondAddRouteConflicts ==
  [][\A t \in Threads :
       /\ (th[t].dup \/ th'[t].dup) =>
            (nodes' = nodes /\ hotItems' = hotItems)
       /\ (ret'[t].kind = "add" /\ ret'[t].dup) => ret'[t].err = "conflict"]_vars

(***************************************************************************)
(* C3: FindRoute returns (nil, nil, false) and does not panic whenever     *)
(* some segment of the path has neither a literal nor a wildcard child in  *)
(* the shard's tree, or the node reached at the last segment has no        *)
(* handler of the method.                                                  *)
(***************************************************************************)
C3_NoMatchReturnsNotFound ==
  \A t \in Threads :
    (Returned(t) /\ NoMatch(ret[t].method, ret[t].path)) =>
      /\ ~ret[t].panicked
      /\ ~ret[t].found
      /\ ret[t].h = NilHandler
      /\ ret[t].params = NoMap

(***************************************************************************)
(* C4: the map a FindRoute call returns holds exactly the bindings of the  *)
(* match, whatever callers did to the maps earlier calls gave them and     *)
(* whether the tree or the hot cache served the call.                      *)
(***************************************************************************)
C4_ReturnedBindingsExact ==
  \A t \in Threads :
    (Returned(t) /\ ret[t].found) =>
      \A k \in MatchingRoutes(ret[t].method, ret[t].path) :
        ret[t].bindings = Bindings(k[2], ret[t].path)

(***************************************************************************)
(* C5: when concurrent FindRoute calls of one (method, path) cross the     *)
(* promotion threshold, hotCache.add runs at most once for the key, and    *)
(* once every caller has returned it has run exactly once and the key is   *)
(* in the hot cache.                                                       *)
(***************************************************************************)
C5_ExactlyOnePromotion ==
  /\ \A key \in DOMAIN addCount : addCount[key] <= 1
  /\ ( /\ Counter(mGET, ShardOf[pUsersList]) >= hotCacheThreshold
       /\ \A t \in Threads : th[t].pc = "idle" )
       => ( /\ HotKey \in DOMAIN hotItems
            /\ HotKey \in DOMAIN addCount
            /\ addCount[HotKey] = 1 )

\* two goroutines were past the threshold at once: one has inserted the
\* item and returned, the other is still at LoadOrStore
C5_Witness ==
  \E t \in Threads, u \in Threads :
    /\ t # u
    /\ th[t].pc = "promo_los"
    /\ th[u].pc = "idle"
    /\ Returned(u) /\ ret[u].found /\ ~ret[u].cached
    /\ HotKey \in DOMAIN hotItems
    /\ HotKey \in DOMAIN addCount /\ addCount[HotKey] = 1

(***************************************************************************)
(* C6: for a registered route, every one of the concurrent FindRoute       *)
(* calls of a path of the route returns found with the route's handler,    *)
(* so any two of them return the same handler.                             *)
(***************************************************************************)
C6_ConcurrentCallsSameHandler ==
  \A t \in Threads, u \in Threads :
    ( /\ Returned(t) /\ Returned(u)
      /\ ret[t].method = ret[u].method /\ ret[t].path = ret[u].path
      /\ MatchingRoutes(ret[t].method, ret[t].path) # {} )
      => ( /\ ~ret[t].panicked /\ ~ret[u].panicked
           /\ ret[t].found /\ ret[u].found
           /\ ret[t].h = ret[u].h
           /\ \E k \in MatchingRoutes(ret[t].method, ret[t].path) :
                ret[t].h = reg[k] )

(***************************************************************************)
(* C7: a map FindRoute has returned is the caller's alone: it is not in    *)
(* the parameter pool, and no other call works on it or has returned it.   *)
(***************************************************************************)
C7_ReturnedMapOwnedByCaller ==
  \A t \in Threads :
    (Returned(t) /\ ret[t].params # NoMap) =>
      /\ ret[t].params \notin pool
      /\ \A u \in Threads \ {t} :
           /\ th[u].params # ret[t].params
           /\ ret[u].params # ret[t].params

(***************************************************************************)
(* C8: the map inside a cacheItem of the hot cache is never a map a        *)
(* FindRoute caller holds nor a map in the pool, and from the item's       *)
(* insertion on it is the same map with the same bindings.                 *)
(***************************************************************************)
C8_CachedParamsPrivate ==
  [][\A key \in DOMAIN hotItems' :
       LET m == hotItems'[key].params
       IN  /\ m \notin pool'
           /\ \A t \in Threads : ret'[t].params # m
           /\ key \in DOMAIN hotItems =>
                (hotItems[key].params = m /\ pm'[m] = pm[m])]_vars

C10_BatchUnsupportedReturnsError ==
  /\ ~crashed
  /\ \A t \in Threads :
       ( /\ ret[t].kind = "batch"
         /\ \E j \in 1..Len(ret[t].entries) :
              ret[t].entries[j].method \notin Methods )
         => ret[t].err # "nil"

(***************************************************************************)
(* SpecAdd: one goroutine registers patterns on a new router, among them   *)
(* patterns without a non-empty segment.                                   *)
(***************************************************************************)
AddEdgePatterns == {pEmpty, pRoot, pSlashSlash, pUsersList}

AddEdge ==
  \E p \in AddEdgePatterns, h \in Handlers : AddRouteCall(Main, mGET, p, h)

NextAdd ==
  \/ AddEdge
  \/ AddRouteWalk(Main)
  \/ AddRouteLeaf(Main)

SpecAdd == Init /\ [][NextAdd]_vars

(***************************************************************************)
(* C11: AddRoute with a pattern that has no non-empty segment ("", "/",    *)
(* "//") returns an InvalidPath error and registers nothing: the trees     *)
(* stay as they were and the call is not accepted.                         *)
(***************************************************************************)
C11_EmptyPatternInvalid ==
  [][\A t \in Threads :
       ( /\ ret'[t].kind = "add"
         /\ ret'[t].method \in Methods
         /\ Segs(ret'[t].path) = <<>> )
         => ( /\ ret'[t].err = "invalid"
              /\ nodes' = nodes
              /\ <<ret'[t].method, ret'[t].path>> \notin DOMAIN reg' )]_vars

(***************************************************************************)
(* What the properties of BatchAddRoutes speak of.                         *)
(***************************************************************************)
\* the handler stored in the tree for the entry's (method, pattern), or
\* NilHandler when there is none
StoredHandler(e) ==
  LET k == <<e.method, ShardOf[e.path], Segs(e.path)>>
  IN  IF k \in DOMAIN nodes /\ e.method \in DOMAIN nodes[k].handlers
        THEN nodes[k].handlers[e.method]
        ELSE NilHandler

\* the entries of a batch that repeat a route registered before the call
\* or an earlier entry of the batch
ConflictingEntries(entries, pre) ==
  {j \in 1..Len(entries) :
     \/ <<entries[j].method, entries[j].path>> \in pre
     \/ \E i \in 1..(j - 1) :
          /\ entries[i].method = entries[j].method
          /\ entries[i].path = entries[j].path}

\* the entries of a batch a worker applied without error
AppliedEntries(entries, pre) ==
  {j \in 1..Len(entries) \ ConflictingEntries(entries, pre) :
     LET k == <<entries[j].method, entries[j].path>>
     IN  k \in DOMAIN reg /\ reg[k] = entries[j].handler}

(***************************************************************************)
(* C12: BatchAddRoutes returns nil only if every entry has been applied    *)
(* (its handler is stored for its method and pattern); if an entry repeats *)
(* a registered route or an earlier entry of the batch, the call returns   *)
(* the error of one of the entries that failed.                            *)
(***************************************************************************)
C12_BatchNilOnlyIfAllApplied ==
  \A t \in Threads :
    ret[t].kind = "batch" =>
      LET es == ret[t].entries
          bad == ConflictingEntries(es, ret[t].pre)
      IN  /\ ret[t].err = "nil" =>
               /\ bad = {}
               /\ \A j \in 1..Len(es) : StoredHandler(es[j]) = es[j].handler
          /\ bad # {} =>
               /\ ret[t].err # "nil"
               /\ \E j \in bad : es[j].path = ret[t].path

(***************************************************************************)
(* C13: when BatchAddRoutes returns an error, every entry a worker applied *)
(* before the failure stays registered: its handler is stored for its      *)
(* method and pattern, where FindRoute finds it and a later AddRoute hits  *)
(* the conflict.                                                           *)
(***************************************************************************)
C13_BatchNoRollback ==
  \A t \in Threads :
    (ret[t].kind = "batch" /\ ret[t].err # "nil") =>
      \A j \in AppliedEntries(ret[t].entries, ret[t].pre) :
        StoredHandler(ret[t].entries[j]) = ret[t].entries[j].handler

(***************************************************************************)
(* C20: after any sequence of AddRoute and BatchAddRoutes calls, no node   *)
(* has two children with wildcard = true (children are keyed by segment    *)
(* text, so two children of a node never share a key).                     *)
(***************************************************************************)
C20_AtMostOneWildcardChild ==
  \A c \in DOMAIN nodes, d \in DOMAIN nodes :
    ( /\ \A t \in Threads : th[t].pc = "idle"
      /\ c[1] = d[1] /\ c[2] = d[2]
      /\ Len(c[3]) = Len(d[3])
      /\ SubSeq(c[3], 1, Len(c[3]) - 1) = SubSeq(d[3], 1, Len(d[3]) - 1)
      /\ nodes[c].wildcard /\ nodes[d].wildcard )
      => c = d


(***************************************************************************)
(* The cleanup goroutine, the ticker and Close.                            *)
(*                                                                         *)
(* cleanupTicker fires once per cacheCleanupInterval into a channel that   *)
(* holds one tick; a tick that finds the channel full is dropped.  The     *)
(* goroutine started by NewRouter selects between a tick, which runs one   *)
(* pass of shardedCache.cleanup, and the closing of stopChan, which stops  *)
(* the ticker and ends the goroutine.                                      *)
(***************************************************************************)
\* time passes; the ticker, unless stopped, fires
Tick ==
  /\ ~crashed
  /\ now < MaxTime
  /\ now' = now + cacheCleanupInterval
  /\ tickReady' = (tickReady \/ cw.pc # "exited")
  /\ UNCHANGED batchVars
  /\ UNCHANGED <<nodes, hotCounter, hotCounters, hotItems, pool, pm, th, ret,
                 crashed, reg, addCount, stopChan, cw, detached, bucketPtr>>
  /\ UNCHANGED auxVars

\* case <-r.cleanupTicker.C: the pass begins and reads the time
CleanerTick ==
  /\ ~crashed
  /\ cw.pc = "select"
  /\ tickReady
  /\ tickReady' = FALSE
  /\ cw' = [pc |-> "lock", b |-> 0, now |-> now, pass |-> cw.pass + 1]
  /\ UNCHANGED batchVars
  /\ UNCHANGED <<nodes, hotCounter, hotCounters, hotItems, now, pool, pm, th,
                 ret, crashed, reg, addCount, stopChan, detached, bucketPtr>>
  /\ UNCHANGED auxVars

\* shard.mu.Lock() of the bucket the pass is at
CleanupLock ==
  /\ ~crashed
  /\ cw.pc = "lock"
  /\ ~WriterHolds(cw.b)
  /\ cw' = [cw EXCEPT !.pc = "sweep"]
  /\ UNCHANGED batchVars
  /\ UNCHANGED <<nodes, hotCounter, hotCounters, hotItems, now, pool, pm, th,
                 ret, crashed, reg, addCount, tickReady, stopChan, detached,
                 bucketPtr>>
  /\ UNCHANGED auxVars

\* the entries of bucket b the pass keeps
Kept(b) ==
  {k \in DOMAIN hotItems :
     BucketOf(k) # b
       \/ cw.now - hotItems[k].lastAccess < cacheCleanupInterval}

\* the bucket's entries that are young enough go into a new map, the
\* bucket is pointed at it and unlocked; the pass moves to the next bucket
CleanupSweep ==
  /\ ~crashed
  /\ cw.pc = "sweep"
  /\ LET dropped == (DOMAIN hotItems \ Kept(cw.b)) \cap HeldKeys(th)
     IN  /\ hotItems' = [k \in Kept(cw.b) |-> hotItems[k]]
         /\ detached' =
              [k \in dropped |->
                 [handler |-> hotItems[k].handler,
                  params |-> hotItems[k].params,
                  lastAccess |-> hotItems[k].lastAccess,
                  pass |-> cw.pass]] @@ detached
  /\ bucketPtr' = [bucketPtr EXCEPT ![cw.b] = FreshMap(cw.b)]
  /\ cw' = IF cw.b + 1 = cacheShardCount
             THEN [cw EXCEPT !.pc = "select"]
             ELSE [cw EXCEPT !.pc = "lock", !.b = cw.b + 1]
  /\ UNCHANGED batchVars
  /\ UNCHANGED <<nodes, hotCounter, hotCounters, now, pool, pm, th, ret,
                 crashed, reg, addCount, tickReady, stopChan>>
  /\ UNCHANGED auxVars

\* a select that never finds stopChan closed
StopSeenNever == FALSE

\* the select finds stopChan closed
StopSeen == stopChan = "closed"

\* case <-r.stopChan: r.cleanupTicker.Stop(); return
CleanerStop ==
  /\ ~crashed
  /\ cw.pc = "select"
  /\ StopSeen
  /\ cw' = [cw EXCEPT !.pc = "exited"]
  /\ UNCHANGED batchVars
  /\ UNCHANGED <<nodes, hotCounter, hotCounters, hotItems, now, pool, pm, th,
                 ret, crashed, reg, addCount, tickReady, stopChan, detached,
                 bucketPtr>>
  /\ UNCHANGED auxVars

\* Router.Close: close(r.stopChan), which panics on a closed channel
Close(t) ==
  /\ ~crashed
  /\ th[t].pc = "idle"
  /\ ret' = [ret EXCEPT ![t] =
       [NoRet EXCEPT !.kind = "close", !.panicked = (stopChan = "closed")]]
  /\ stopChan' = "closed"
  /\ pm' = Normalize(pm, pool, th, ret', AllItems)
  /\ UNCHANGED batchVars
  /\ UNCHANGED <<nodes, hotCounter, hotCounters, hotItems, now, pool, th,
                 crashed, reg, addCount, tickReady, cw, detached, bucketPtr>>
  /\ UNCHANGED auxVars

(***************************************************************************)
(* SpecClean: the router of SpecHot with its clock and its cleanup         *)
(* goroutine running, one goroutine that looks the route up again and      *)
(* again and calls Close.                                                  *)
(***************************************************************************)
LookupAgain ==
  /\ Counter(mGET, ShardOf[pUsersList]) < hotCacheThreshold + MaxHits
  /\ FindRouteCall(Main, mGET, pUsersList)

NextClean ==
  \/ LookupAgain
  \/ HotProbe(Main)
  \/ HotTouch(Main)
  \/ HotCopy(Main)
  \/ FindGet(Main)
  \/ FindWalk(Main)
  \/ FindLeaf(Main)
  \/ PromoCount(Main)
  \/ PromoLoadOrStore(Main)
  \/ PromoAdd(Main)
  \/ Tick
  \/ CleanerTick
  \/ CleanupLock
  \/ CleanupSweep
  \/ CleanerStop
  \/ Close(Main)

SpecClean == InitHot /\ [][NextClean]_vars

(***************************************************************************)
(* C14.  A cleanup pass removes exactly the stale entries.  When a pass    *)
(* ends, every item the pass dropped has a last access at least one        *)
(* cacheCleanupInterval before the time the pass read, also when a hit of  *)
(* FindRoute stamped the item while the pass ran, and every item still in  *)
(* the cache has a last access less than one interval before that time.    *)
(***************************************************************************)
C14_CleanupRemovesOnlyStale ==
  [][(cw.pc = "sweep" /\ cw'.pc = "select") =>
       /\ \A k \in DOMAIN detached' :
            detached'[k].pass = cw.pass =>
              cw.now - detached'[k].lastAccess >= cacheCleanupInterval
       /\ \A k \in DOMAIN hotItems' :
            cw.now - hotItems'[k].lastAccess < cacheCleanupInterval]_vars

(***************************************************************************)
(* C15.  A map a cache bucket points at is never modified: whenever the    *)
(* keys seen through a bucket change, the bucket points at another map     *)
(* than before, so the map a reader loaded holds what it held when it was  *)
(* published.                                                              *)
(***************************************************************************)
BucketKeys(items, b) == {k \in DOMAIN items : BucketOf(k) = b}

C15_PublishedMapNeverModified ==
  [][\A b \in Buckets :
       BucketKeys(hotItems', b) # BucketKeys(hotItems, b) =>
         bucketPtr'[b] # bucketPtr[b]]_vars

\* hotCache.add published the item of the route and a cleanup pass then
\* published the bucket without it
C15_Witness ==
  LET key == CacheKey(mGET, pUsersList)
  IN  /\ key \in DOMAIN addCount
      /\ key \notin DOMAIN hotItems
      /\ cw.pass > 0
      /\ bucketPtr[BucketOf(key)] = 0

(***************************************************************************)
(* C16.  A cache read takes no lock: a FindRoute call that is about to     *)
(* probe the hot cache can take that step in every state, also while the   *)
(* cleanup pass holds the mutex of the key's bucket.                       *)
(***************************************************************************)
C16_GetNeverBlocks ==
  \A t \in Threads :
    (~crashed /\ th[t].pc = "probe") => ENABLED HotProbe(t)

(***************************************************************************)
(* C17.  Close may be called any number of times: no call of Close ends    *)
(* in a panic.                                                             *)
(***************************************************************************)
C17_CloseNeverPanics ==
  \A t \in Threads : ret[t].kind = "close" => ~ret[t].panicked

(***************************************************************************)
(* SpecCleanFair: SpecClean under fair scheduling of the cleanup           *)
(* goroutine.  The Go scheduler runs a runnable goroutine eventually, so   *)
(* a pass that has begun takes its next step (weak fairness: Lock waits    *)
(* only for reads, which are single steps).  A select with several ready   *)
(* cases picks one of them at random, so a goroutine that comes back to    *)
(* the select again and again with stopChan closed takes that case         *)
(* eventually (strong fairness: the case is not ready while a pass runs).  *)
(***************************************************************************)
SpecCleanFair ==
  /\ SpecClean
  /\ WF_vars(CleanupLock)
  /\ WF_vars(CleanupSweep)
  /\ SF_vars(CleanerStop)

(***************************************************************************)
(* C18.  Once Close has been called the cleanup goroutine eventually       *)
(* leaves its loop, and after it has taken the stop case it starts no      *)
(* pass: its state never changes again.                                    *)
(***************************************************************************)
C18_CloseStopsCleaner ==
  /\ (stopChan = "closed") ~> (cw.pc = "exited")
  /\ [][cw.pc = "exited" => cw' = cw]_vars

\* the goroutine has left its loop after at least one pass, with a tick
\* waiting in the ticker's channel that starts no pass
C18_Witness ==
  /\ stopChan = "closed"
  /\ cw.pc = "exited"
  /\ cw.pass > 0
  /\ tickReady

(***************************************************************************)
(* The Context pools: contextPool with GetContext and PutContext           *)
(* (pool.go), ctxPools with getContext and putContext (radix.go), and the  *)
(* writes a handler makes to the Context it is given.  A Context is its    *)
(* fields; the field `used` is history: the holder has written the         *)
(* Context since it acquired it.  A sync.Pool may drop what is put into    *)
(* it, and Get makes a new object when it finds none.                      *)
(***************************************************************************)
\* everything but the Context pools
routerVarsNoWarm ==
  <<nodes, hotCounter, hotCounters, hotItems, now, pool, pm, th, ret,
    crashed, reg, addCount, batchVars, bgVars, held, treeHits, simd>>

routerVarsNoSimd ==
  <<nodes, hotCounter, hotCounters, hotItems, now, pool, pm, th, ret,
    crashed, reg, addCount, batchVars, bgVars, held, treeHits, warmVars>>

routerVars == <<routerVarsNoSimd, simd>>

\* &Context{Params: make(map[string]string), ...}: the other fields zero
NewCtx(q) ==
  [kind |-> "ctx", from |-> q, params |-> {}, errors |-> <<>>, store |-> {},
   handlers |-> <<>>, data |-> "nil", status |-> 0, index |-> 0,
   aborted |-> FALSE, used |-> FALSE]

\* Put: the pool keeps the object or drops it
PoolPut(q, c) ==
  [ctxPool EXCEPT ![q] = IF Cardinality(@) < MaxCtx THEN @ \cup {c} ELSE @]

\* GetContext: contextPool.Get(), then Request, Response, Writer, start
\* and Index are set
GetContext ==
  /\ ctxCur = NoCtx
  /\ \E c \in ctxPool["contextPool"] \cup {NewCtx("contextPool")} :
       /\ ctxCur' = [c EXCEPT !.index = -1]
       /\ ctxPool' = [ctxPool EXCEPT !["contextPool"] = @ \ {c}]
  /\ UNCHANGED routerVars

\* Context.reset
reset(c) == [c EXCEPT !.params = {}, !.index = -1, !.aborted = FALSE]

\* PutContext: c.reset(), then contextPool.Put(c)
PutContext ==
  /\ ctxCur # NoCtx
  /\ ctxCur.from = "contextPool"
  /\ ctxPool' = PoolPut("contextPool", [reset(ctxCur) EXCEPT !.used = FALSE])
  /\ ctxCur' = NoCtx
  /\ UNCHANGED routerVars

\* the parameter counts a caller of getContext may pass
ParamCounts == {4, 8, 16, 17}

\* the pool getContext(paramCount) draws from
CtxPoolFor(n) ==
  IF n <= 4 THEN "ctxPools0"
  ELSE IF n <= 8 THEN "ctxPools1"
  ELSE "ctxPools2"

\* getContext: the pool of the parameter count, or a new Context above 16
getContext ==
  /\ ctxCur = NoCtx
  /\ \E n \in ParamCounts :
       IF n <= 16
         THEN \E c \in ctxPool[CtxPoolFor(n)] \cup {NewCtx(CtxPoolFor(n))} :
                /\ ctxCur' = c
                /\ ctxPool' = [ctxPool EXCEPT ![CtxPoolFor(n)] = @ \ {c}]
         ELSE /\ ctxCur' = NewCtx("ctxPools2")
              /\ UNCHANGED ctxPool
  /\ UNCHANGED routerVars

\* putContext: the keys of Params are deleted; the emptied map has length
\* 0, which selects ctxPools[0]
putContext ==
  /\ ctxCur # NoCtx
  /\ ctxCur.from # "contextPool"
  /\ ctxPool' = PoolPut(CtxPoolFor(0),
       [ctxCur EXCEPT !.params = {}, !.from = CtxPoolFor(0), !.used = FALSE])
  /\ ctxCur' = NoCtx
  /\ UNCHANGED routerVars

\* the holder of the Context has written it
Written(c) == [c EXCEPT !.used = TRUE]

\* Context.SetParam (and ServeHTTP's ctx.Params = params)
CtxSetParam ==
  /\ ctxCur # NoCtx
  /\ ctxCur' = Written([ctxCur EXCEPT !.params = @ \cup {sId}])
  /\ UNCHANGED ctxPool
  /\ UNCHANGED routerVars

\* Context.Error
CtxError ==
  /\ ctxCur # NoCtx
  /\ Len(ctxCur.errors) < MaxErrors
  /\ ctxCur' = Written([ctxCur EXCEPT !.errors = Append(@, "err")])
  /\ UNCHANGED ctxPool
  /\ UNCHANGED routerVars

\* Context.Set
CtxSet ==
  /\ ctxCur # NoCtx
  /\ ctxCur' = Written([ctxCur EXCEPT !.store = @ \cup {sK}])
  /\ UNCHANGED ctxPool
  /\ UNCHANGED routerVars

\* a handler assigns the exported field Data
CtxSetData ==
  /\ ctxCur # NoCtx
  /\ ctxCur' = Written([ctxCur EXCEPT !.data = "data"])
  /\ UNCHANGED ctxPool
  /\ UNCHANGED routerVars

\* a handler assigns the exported field StatusCode
CtxSetStatus ==
  /\ ctxCur # NoCtx
  /\ ctxCur' = Written([ctxCur EXCEPT !.status = 500])
  /\ UNCHANGED ctxPool
  /\ UNCHANGED routerVars

\* Context.Abort: c.Index = len(c.handlers)
CtxAbort ==
  /\ ctxCur # NoCtx
  /\ ctxCur' = Written([ctxCur EXCEPT !.index = Len(ctxCur.handlers)])
  /\ UNCHANGED ctxPool
  /\ UNCHANGED routerVars

NextCtx ==
  \/ GetContext
  \/ PutContext
  \/ getContext
  \/ putContext
  \/ CtxSetParam
  \/ CtxError
  \/ CtxSet
  \/ CtxSetData
  \/ CtxSetStatus
  \/ CtxAbort

SpecCtx == Init /\ [][NextCtx]_vars

(***************************************************************************)
(* C21.  A pooled Context carries nothing over: a Context that has just    *)
(* been acquired, by GetContext or getContext, and that its holder has not *)
(* written yet has empty Params, no Errors, no store values, no handlers,  *)
(* no Data and no StatusCode.                                              *)
(***************************************************************************)
C21_AcquiredContextIsClean ==
  (ctxCur # NoCtx /\ ~ctxCur.used) =>
    /\ ctxCur.params = {}
    /\ ctxCur.errors = <<>>
    /\ ctxCur.store = {}
    /\ ctxCur.handlers = <<>>
    /\ ctxCur.data = "nil"
    /\ ctxCur.status = 0

(***************************************************************************)
(* Concurrent callers with the node locks as steps of their own.  Lock     *)
(* and RLock are the step NodeLock, which waits while another goroutine    *)
(* holds the node in a conflicting mode; the step that follows does the    *)
(* work of the level and unlocks.  RLock of a nil node does not lock: the  *)
(* step that follows is the panic.                                         *)
(***************************************************************************)
WalkPcs == {"ar_walk", "ar_leaf", "fr_walk", "fr_leaf"}

\* the node of a lock
LockNode(lk) == lk[2]

\* no other goroutine holds the node of lk in a mode that excludes lk
CanLock(t, lk) ==
  \A u \in Threads \ {t} :
    \A l \in held[u] :
      LockNode(l) = LockNode(lk) => (l[1] = "r" /\ lk[1] = "r")

\* current.mu.Lock(), child.mu.Lock(), current.mu.RLock(), child.mu.RLock()
NodeLock(t) ==
  /\ ~crashed
  /\ th[t].pc \in WalkPcs
  /\ LockNode(LockOf(t))[3] # NilNode
  /\ LockOf(t) \notin held[t]
  /\ CanLock(t, LockOf(t))
  /\ held' = [held EXCEPT ![t] = @ \cup {LockOf(t)}]
  /\ UNCHANGED <<nodes, hotCounter, hotCounters, hotItems, now, pool, pm, th,
                 ret, crashed, reg, addCount, batchVars, bgVars, treeHits,
                 ctxVars, simd, warmVars>>

\* goroutine t has taken the lock of its next step
Locked(t) ==
  LockNode(LockOf(t))[3] = NilNode \/ LockOf(t) \in held[t]

AddRouteWalkLocked(t) == Locked(t) /\ AddRouteWalk(t)

AddRouteLeafLocked(t) == Locked(t) /\ AddRouteLeaf(t)

FindWalkLocked(t) == Locked(t) /\ FindWalk(t)

FindLeafLocked(t) == Locked(t) /\ FindLeaf(t)

\* the goroutines call AddRoute with the patterns pats and FindRoute with
\* the paths paths
NextConc(pats, hs, paths) ==
  \E t \in Threads :
    \/ \E p \in pats, h \in hs : AddRouteCall(t, mGET, p, h)
    \/ NodeLock(t)
    \/ AddRouteWalkLocked(t)
    \/ AddRouteLeafLocked(t)
    \/ \E p \in paths :
         /\ Counter(mGET, ShardOf[p]) < MaxHits
         /\ FindRouteCall(t, mGET, p)
    \/ HotProbe(t)
    \/ FindGet(t)
    \/ FindWalkLocked(t)
    \/ FindLeafLocked(t)
    \/ PromoCount(t)

(***************************************************************************)
(* SpecLock: NumThreads goroutines register and look up one route.         *)
(***************************************************************************)
SpecLock == Init /\ [][NextConc({pUsers61}, {"h1"}, {pUsers61})]_vars

(***************************************************************************)
(* C26.  A goroutine in AddRoute or FindRoute holds at most one node lock  *)
(* at any time, so the lock of a node is released before the lock of its   *)
(* child is taken, and it holds none when the call has returned, with a    *)
(* handler, with a conflict or with not found.                             *)
(***************************************************************************)
C26_AtMostOneNodeLock ==
  \A t \in Threads :
    /\ Cardinality(held[t]) <= 1
    /\ th[t].pc \notin WalkPcs => held[t] = {}

\* one call of AddRoute has returned a conflict, holding nothing, while a
\* FindRoute of another goroutine holds the read lock of a node below the
\* root
C26_Witness ==
  \E t \in Threads, u \in Threads :
    /\ ret[t].kind = "add" /\ ret[t].err = "conflict" /\ held[t] = {}
    /\ \E l \in held[u] : l[1] = "r" /\ LockNode(l)[3] # RootKey

(***************************************************************************)
(* SpecBatchFair, SpecLockFair: SpecBatch and SpecLock under fair          *)
(* scheduling.  The Go scheduler runs a runnable goroutine eventually:     *)
(* a step of a call in progress that stays possible is taken.  Starting a  *)
(* call is up to the caller and is not forced.  A goroutine that waits     *)
(* for a node lock competes for it again whenever it is released, and      *)
(* sync.RWMutex hands a lock to a waiter before a later arrival (strong    *)
(* fairness of NodeLock).                                                  *)
(***************************************************************************)
BatchSteps ==
  \/ BatchPick(Main)
  \/ \E s \in DOMAIN workers :
       WorkerStart(s) \/ WorkerNext(s) \/ WorkerWalk(s) \/ WorkerLeaf(s)
  \/ BatchJoin(Main)
  \/ AddRouteWalk(Main)
  \/ AddRouteLeaf(Main)

SpecBatchFair == SpecBatch /\ WF_vars(BatchSteps)

\* the steps of goroutine t's call in progress, but for the locking
CallSteps(t) ==
  \/ AddRouteWalkLocked(t)
  \/ AddRouteLeafLocked(t)
  \/ HotProbe(t)
  \/ FindGet(t)
  \/ FindWalkLocked(t)
  \/ FindLeafLocked(t)
  \/ PromoCount(t)

SpecLockFair ==
  /\ SpecLock
  /\ \A t \in Threads : WF_vars(CallSteps(t)) /\ SF_vars(NodeLock(t))

(***************************************************************************)
(* C22.  Every call of AddRoute, FindRoute and BatchAddRoutes returns:     *)
(* under fair scheduling a goroutine that is in a call is eventually out   *)
(* of it again, whatever else runs.                                        *)
(***************************************************************************)
C22_EveryCallReturns ==
  \A t \in Threads : (th[t].pc # "idle") ~> (th[t].pc = "idle")

\* what holds instead: a call returns unless the process dies
CallReturnsOrProcessDies ==
  \A t \in Threads : (th[t].pc # "idle") ~> (th[t].pc = "idle" \/ crashed)

(***************************************************************************)
(* SpecShared: one goroutine looks up two registered routes whose paths    *)
(* hash to the same shard.  The initial state is the router after          *)
(* AddRoute(GET, "/users/61", h1), AddRoute(GET, "/users/v2/extra", h2)    *)
(* and hotCacheThreshold - 2 lookups of "/users/61".                       *)
(***************************************************************************)
SharedRouteNodes ==
  LET a == ShardOf[pUsers61]
      b == ShardOf[pUsersV2Extra]
  IN  (<<mGET, a, <<sUsers>>>> :> NewNode(sUsers))
        @@ (<<mGET, a, <<sUsers, s61>>>> :>
              [NewNode(s61) EXCEPT !.handlers = (mGET :> "h1")])
        @@ (<<mGET, b, <<sUsers>>>> :> NewNode(sUsers))
        @@ (<<mGET, b, <<sUsers, sV2>>>> :> NewNode(sV2))
        @@ (<<mGET, b, <<sUsers, sV2, sExtra>>>> :>
              [NewNode(sExtra) EXCEPT !.handlers = (mGET :> "h2")])

InitShared ==
  /\ nodes = SharedRouteNodes
  /\ hotCounter = (<<mGET, ShardOf[pUsers61]>> :> (hotCacheThreshold - 2))
  /\ hotCounters = {}
  /\ hotItems = [k \in {} |-> 0]
  /\ now = 0
  /\ pool = {}
  /\ pm = [m \in MapIds |-> EmptyMap]
  /\ th = [t \in Threads |-> IdleThread]
  /\ ret = [t \in Threads |-> NoRet]
  /\ crashed = FALSE
  /\ reg = (<<mGET, pUsers61>> :> "h1") @@ (<<mGET, pUsersV2Extra>> :> "h2")
  /\ addCount = [k \in {} |-> 0]
  /\ batch = NoBatch
  /\ workers = [k \in {} |-> 0]
  /\ BgInit
  /\ AuxInit
  /\ treeHits = (CacheKey(mGET, pUsers61) :> (hotCacheThreshold - 2))

SharedPaths == {pUsers61, pUsersV2Extra}

NextShared ==
  \/ \E p \in SharedPaths : FindRouteCall(Main, mGET, p)
  \/ HotProbe(Main)
  \/ HotTouch(Main)
  \/ HotCopy(Main)
  \/ FindGet(Main)
  \/ FindWalk(Main)
  \/ FindLeaf(Main)
  \/ PromoCount(Main)
  \/ PromoLoadOrStore(Main)
  \/ PromoAdd(Main)
  \/ CallerMutate(Main)

SpecShared == InitShared /\ [][NextShared]_vars

(***************************************************************************)
(* C23.  The promotion counter is kept per method:path: every key in the   *)
(* hot cache has itself been matched through the tree at least             *)
(* hotCacheThreshold times; matches of other routes of the shard do not    *)
(* count for it.                                                           *)
(***************************************************************************)
C23_PromotedAfterOwnMatches ==
  \A key \in DOMAIN hotItems :
    key \in DOMAIN treeHits /\ treeHits[key] >= hotCacheThreshold

(***************************************************************************)
(* SpecConc: NumThreads goroutines register, with either handler, a        *)
(* literal route and a pattern that ends with '/', and look both up.       *)
(***************************************************************************)
ConcPatterns == {pUsers61, pUsersSlash}

ConcPaths == {pUsers61, pUsersSlash}

SpecConc == Init /\ [][NextConc(ConcPatterns, Handlers, ConcPaths)]_vars

(***************************************************************************)
(* C24.  Two concurrent AddRoute calls of one (method, pattern) with       *)
(* different handlers: exactly one returns nil, the other returns          *)
(* RouteConflict, and the handler stored for the pattern is the one of     *)
(* the call that returned nil.  (The calls are concurrent when neither     *)
(* began after the pair had been accepted.)                                *)
(***************************************************************************)
\* the handler stored in the tree for (method, pattern), NilHandler if none
HandlerAt(method, pattern) ==
  LET k == <<method, ShardOf[pattern], Segs(pattern)>>
  IN  IF k \in DOMAIN nodes /\ method \in DOMAIN nodes[k].handlers
        THEN nodes[k].handlers[method] ELSE NilHandler

C24_ConcurrentAddOneWins ==
  \A t \in Threads : \A u \in Threads \ {t} :
    ( /\ ret[t].kind = "add" /\ ret[u].kind = "add"
      /\ ret[t].method = ret[u].method /\ ret[t].path = ret[u].path
      /\ ret[t].handler # ret[u].handler
      /\ ~ret[t].dup /\ ~ret[u].dup
      /\ ret[t].err # "conflict" )
    => /\ ret[t].err = "nil"
       /\ ret[u].err = "conflict"
       /\ HandlerAt(ret[t].method, ret[t].path) = ret[t].handler

(***************************************************************************)
(* SpecPrefix: NumThreads goroutines register two patterns of one shard    *)
(* that share the segment "users", /users/61 and /users/:id (both hash to  *)
(* shard 224), and look up a path of each.                                 *)
(***************************************************************************)
PrefixPatterns == {pUsers61, pUsersId}

PrefixPaths == {pUsers61, pUsers42}

SpecPrefix == Init /\ [][NextConc(PrefixPatterns, Handlers, PrefixPaths)]_vars

\* two accepted patterns of one method that land in one shard and share
\* their first segment
SamePrefixPair(j, k) ==
  /\ j # k
  /\ j[1] = k[1]
  /\ ShardOf[j[2]] = ShardOf[k[2]]
  /\ Segs(j[2]) # <<>> /\ Segs(k[2]) # <<>>
  /\ Head(Segs(j[2])) = Head(Segs(k[2]))

\* every accepted registration has its handler at its leaf: no call's child
\* node or handler is lost
RegisteredHandlersStored ==
  \A k \in DOMAIN reg : HandlerAt(k[1], k[2]) = reg[k]

(***************************************************************************)
(* C25.  After concurrent AddRoute calls of two patterns of one method     *)
(* that land in one shard and share a prefix, both calls have returned nil *)
(* and both routes are findable: a FindRoute that begins afterwards with a *)
(* path of either route returns found with the handler of a route the path *)
(* matches.                                                                *)
(***************************************************************************)
C25_SamePrefixBothFindable ==
  \A t \in Threads :
    ( /\ Returned(t)
      /\ \E j \in ret[t].pre : \E k \in ret[t].pre :
           /\ SamePrefixPair(j, k)
           /\ ret[t].method = j[1]
           /\ Matches(j[2], ret[t].path) )
    => /\ ~ret[t].panicked
       /\ ret[t].found
       /\ \E k \in MatchingRoutes(ret[t].method, ret[t].path) :
            ret[t].h = reg[k]

(***************************************************************************)
(* C27.  A FindRoute(method, pattern) that begins after AddRoute(method,   *)
(* pattern, h) has returned nil returns (h, found); one that overlaps the  *)
(* AddRoute returns not found or the handler stored for the pattern, and   *)
(* neither panics.                                                         *)
(***************************************************************************)
C27_FindAfterAddReturnsHandler ==
  \A t \in Threads :
    (Returned(t) /\ ret[t].path \in ConcPatterns) =>
      LET k == <<ret[t].method, ret[t].path>>
      IN  /\ ~ret[t].panicked
          /\ k \in ret[t].pre => (ret[t].found /\ ret[t].h = reg[k])
          /\ ret[t].found => ret[t].h = HandlerAt(k[1], k[2])

(***************************************************************************)
(* C28.  At each level findRoute follows the literal child keyed by the    *)
(* path segment when there is one, binding nothing; only without one it    *)
(* follows a wildcard child of the node, binds that child's paramName to   *)
(* the segment, and goes on from that wildcard child.                      *)
(***************************************************************************)
\* the node the lookup of goroutine t goes on from after a level
Followed(thX, t) ==
  IF thX[t].pc = "fr_leaf" THEN thX[t].child ELSE thX[t].cur

\* goroutine t takes a level of its lookup and goes on
WalkStep(t) ==
  /\ th[t].pc = "fr_walk"
  /\ th[t].cur # NilNode
  /\ th'[t] # th[t]
  /\ th'[t].pc \in {"fr_walk", "fr_leaf"}

C28_LiteralElseWildcardChild ==
  [][\A t \in Threads :
       WalkStep(t) =>
         LET part == PartsOf[th[t].path][th[t].i]
             lit == <<th[t].method, ShardOf[th[t].path],
                      Append(th[t].cur, part)>>
             wild == WildcardChildren(th[t].method, ShardOf[th[t].path],
                                      th[t].cur)
             m == th[t].params
         IN  IF lit \in DOMAIN nodes
               THEN /\ Followed(th', t) = lit[3]
                    /\ pm'[m] = pm[m]
               ELSE \E w \in wild :
                      /\ Followed(th', t) = w[3]
                      /\ pm'[m] = Overlay(pm[m], (nodes[w].paramName :> part))
    ]_vars

(***************************************************************************)
(* simdMatch (radix.go:113-137).  Go indexes the slice from 0: the element *)
(* at Go index i is branches[i + 1] here, and results are Go indexes.      *)
(***************************************************************************)
BranchKeys == {"users", "posts"}

RECURSIVE SeqsUpTo(_, _)
\* the sequences over S of length at most n
SeqsUpTo(S, n) ==
  IF n = 0 THEN {<<>>}
  ELSE LET shorter == SeqsUpTo(S, n - 1)
       IN  shorter \cup {Append(b, x) : b \in {c \in shorter : Len(c) = n - 1},
                                        x \in S}

BranchSlices == SeqsUpTo(BranchKeys, MaxBranches)

\* a block that leaves its last comparison out
BlockScanShort(branches, target, i) ==
  IF branches[i + 1] = target THEN i
  ELSE IF branches[i + 2] = target THEN i + 1
  ELSE IF branches[i + 3] = target THEN i + 2
  ELSE -1

\* the four unrolled comparisons of a full block at Go index i: the index
\* returned, or -1 when the block holds no match
BlockScan(branches, target, i) ==
  IF branches[i + 1] = target THEN i
  ELSE IF branches[i + 2] = target THEN i + 1
  ELSE IF branches[i + 3] = target THEN i + 2
  ELSE IF branches[i + 4] = target THEN i + 3
  ELSE -1

RECURSIVE TailScan(_, _, _)
\* for j := i; j < len(staticBranches); j++: the index returned, or -1
TailScan(branches, target, j) ==
  IF j >= Len(branches) THEN -1
  ELSE IF branches[j + 1] = target THEN j
  ELSE TailScan(branches, target, j + 1)

\* simdMatch is called on a slice and a target
SimdCall ==
  /\ simd.pc \in {"none", "done"}
  /\ \E b \in BranchSlices, x \in BranchKeys :
       simd' = [branches |-> b, target |-> x, pc |-> "loop", i |-> 0,
                result |-> 0]
  /\ UNCHANGED <<routerVarsNoSimd, ctxVars>>

\* an iteration with i+3 < len: the unrolled block returns or i += 4
SimdBlock ==
  /\ simd.pc = "loop"
  /\ simd.i < Len(simd.branches)
  /\ simd.i + 3 < Len(simd.branches)
  /\ LET r == BlockScan(simd.branches, simd.target, simd.i)
     IN  simd' = IF r # -1
                   THEN [simd EXCEPT !.pc = "done", !.result = r]
                   ELSE [simd EXCEPT !.i = @ + 4]
  /\ UNCHANGED <<routerVarsNoSimd, ctxVars>>

\* an iteration with fewer than four elements left: the inner loop returns
\* or i += 4
SimdTail ==
  /\ simd.pc = "loop"
  /\ simd.i < Len(simd.branches)
  /\ ~(simd.i + 3 < Len(simd.branches))
  /\ LET r == TailScan(simd.branches, simd.target, simd.i)
     IN  simd' = IF r # -1
                   THEN [simd EXCEPT !.pc = "done", !.result = r]
                   ELSE [simd EXCEPT !.i = @ + 4]
  /\ UNCHANGED <<routerVarsNoSimd, ctxVars>>

\* the outer loop ends: return -1
SimdNone ==
  /\ simd.pc = "loop"
  /\ ~(simd.i < Len(simd.branches))
  /\ simd' = [simd EXCEPT !.pc = "done", !.result = -1]
  /\ UNCHANGED <<routerVarsNoSimd, ctxVars>>

NextSimd ==
  \/ SimdCall
  \/ SimdBlock
  \/ SimdTail
  \/ SimdNone

SpecSimd == Init /\ [][NextSimd]_vars

\* a plain linear scan: the smallest Go index of an element equal to the
\* target, -1 when there is none
LinearScan(branches, target) ==
  LET at == {j \in 1..Len(branches) : branches[j] = target}
  IN  IF at = {} THEN -1 ELSE Min(at) - 1

(***************************************************************************)
(* C29.  simdMatch(branches, target) returns what a plain linear scan      *)
(* returns, for every slice length: the smallest index i with              *)
(* branches[i] = target, and -1 when no element equals target.             *)
(***************************************************************************)
C29_SimdMatchIsLinearScan ==
  simd.pc = "done" => simd.result = LinearScan(simd.branches, simd.target)

\* a slice whose length is no multiple of 4, the first match in the tail
\* after a full block
C29_Witness ==
  /\ simd.pc = "done"
  /\ Len(simd.branches) > 4
  /\ Len(simd.branches) % 4 # 0
  /\ simd.result >= 4
  /\ simd.branches[simd.result + 1] = simd.target

(***************************************************************************)
(* C30.  Every step of AddRoute(method, pattern, h) leaves the nodes of    *)
(* all trees but the one of shard getShard(pattern) of the method, and the *)
(* hot cache, as they were; and each node hangs below a node of its own    *)
(* tree, so that no node is reached from two shard roots.                  *)
(***************************************************************************)
AddPcs == {"ar_walk", "ar_leaf"}

\* goroutine t takes a step of an AddRoute call
AddRouteStep(t) ==
  \/ th[t].pc \in AddPcs /\ th'[t] # th[t]
  \/ /\ th[t].pc = "idle"
     /\ \/ th'[t].pc \in AddPcs
        \/ ret'[t].kind = "add" /\ ret'[t] # ret[t]

\* the method and the pattern of the call the step belongs to
AddRouteArgs(t) ==
  IF th[t].pc \in AddPcs THEN <<th[t].method, th[t].path>>
  ELSE IF th'[t].pc \in AddPcs THEN <<th'[t].method, th'[t].path>>
  ELSE <<ret'[t].method, ret'[t].path>>

\* every node below the first level has its parent in its own tree
NodesHangInOwnTree(nodesX) ==
  \A k \in DOMAIN nodesX :
    Len(k[3]) > 1 =>
      <<k[1], k[2], SubSeq(k[3], 1, Len(k[3]) - 1)>> \in DOMAIN nodesX

C30_AddRouteTouchesOneShard ==
  [][\A t \in Threads :
       AddRouteStep(t) =>
         LET a == AddRouteArgs(t)
         IN  /\ \A k \in DOMAIN nodes \cup DOMAIN nodes' :
                  (k[1] # a[1] \/ k[2] # ShardOf[a[2]]) =>
                    /\ k \in DOMAIN nodes /\ k \in DOMAIN nodes'
                    /\ nodes'[k] = nodes[k]
             /\ hotItems' = hotItems
             /\ bucketPtr' = bucketPtr
             /\ NodesHangInOwnTree(nodes')
    ]_vars

\* an AddRoute has stored its handler while another shard's tree has nodes
C30_Witness ==
  \E t \in Threads :
    /\ ret[t].kind = "add" /\ ret[t].err = "nil"
    /\ HandlerAt(ret[t].method, ret[t].path) = ret[t].handler
    /\ \E k \in DOMAIN nodes : k[2] # ShardOf[ret[t].path]

(***************************************************************************)
(* C35.  Whenever AddRoute(method, pattern, h) returns nil a handler is    *)
(* stored for (method, pattern): the first nil return leaves h at the      *)
(* pattern's leaf, an AddRoute of a pair accepted before does not return   *)
(* nil, and a FindRoute of the pattern text begun after the nil return is  *)
(* found with h; also for patterns that end with '/'.                      *)
(***************************************************************************)
C35_NilReturnMeansStored ==
  \A t \in Threads :
    /\ (ret[t].kind = "add" /\ ret[t].err = "nil") =>
         /\ ~ret[t].dup
         /\ HandlerAt(ret[t].method, ret[t].path) = ret[t].handler
    /\ (Returned(t) /\ <<ret[t].method, ret[t].path>> \in ret[t].pre) =>
         /\ ret[t].found
         /\ ret[t].h = reg[<<ret[t].method, ret[t].path>>]

(***************************************************************************)
(* C32.  A FindRoute answered from the hot cache returns the handler and   *)
(* the parameter bindings a traversal of the shard's tree returns for the  *)
(* (method, path) in that state.                                           *)
(***************************************************************************)
\* the bindings of a traversal that ends at node n: the paramName of every
\* wildcard node on the way, bound to the path's segment at its level
TreeBindings(method, path, n) ==
  LET segs == Segs(path)
      node(i) == nodes[<<method, ShardOf[path], SubSeq(n, 1, i)>>]
      at == {i \in 1..Len(n) : node(i).wildcard}
  IN  [name \in {node(i).paramName : i \in at} |->
         segs[CHOOSE i \in at : node(i).paramName = name]]

\* the nodes with a handler of the method a traversal of the path ends at
TreeEnds(method, path) ==
  {n \in Reach(method, ShardOf[path], Segs(path), RootKey) :
     /\ n # RootKey
     /\ method \in DOMAIN nodes[<<method, ShardOf[path], n>>].handlers}

C32_HotCacheAnswersAsTree ==
  \A t \in Threads :
    (Returned(t) /\ ret[t].cached) =>
      \E n \in TreeEnds(ret[t].method, ret[t].path) :
        /\ ret[t].h =
             nodes[<<ret[t].method, ShardOf[ret[t].path], n>>]
               .handlers[ret[t].method]
        /\ ret[t].bindings = TreeBindings(ret[t].method, ret[t].path, n)

(***************************************************************************)
(* Router.WarmupCache, hotCache.warmup and shardedCache.add, step by step. *)
(* WarmupCache(paths) runs warmup for each path in turn; a call with one   *)
(* path is modelled, a longer slice is a sequence of such calls.  The      *)
(* shards' lru caches, which WarmupCache also writes, are read nowhere.    *)
(***************************************************************************)
\* strings handed to WarmupCache; both fall into cache bucket 5
WarmKeys == {CacheKey(mGET, pUsersList), CacheKey(mPOST, pUsersSlash)}

\* &cacheItem{lastAccess: time.Now().UnixNano()}: no handler, no params
WarmItem(at) == [handler |-> NilHandler, params |-> NoMap, lastAccess |-> at]

\* the entries of bucket b
BucketItems(b) ==
  [k \in {x \in DOMAIN hotItems : BucketOf(x) = b} |-> hotItems[k]]

\* hotCache.warmup(key) builds its item and calls add; each goroutine
\* calls once
WarmupCall(t, key) ==
  /\ ~crashed
  /\ wm[t].pc = "idle"
  /\ wm[t].key = <<>>
  /\ wm' = [wm EXCEPT ![t] =
       [pc |-> "w_lock", key |-> key, at |-> now, old |-> [k \in {} |-> 0],
        with |-> (IF \E u \in Threads \ {t} : wm[u].pc # "idle"
                    THEN {"add"} ELSE {})
                 \cup (IF cw.pc \in {"lock", "sweep"}
                         THEN {"cleanup"} ELSE {})]]
  /\ UNCHANGED <<routerVarsNoWarm, ctxVars, sideVars>>

\* a Lock that does not wait
BucketFreeAlways(b) == TRUE

\* shard.mu.Lock() returns when nobody holds the bucket's mutex
BucketFree(b) == ~MutexHeld(b)

\* shard.mu.Lock()
WarmLock(t) ==
  /\ ~crashed
  /\ wm[t].pc = "w_lock"
  /\ BucketFree(BucketOf(wm[t].key))
  /\ wm' = [wm EXCEPT ![t].pc = "w_load"]
  /\ UNCHANGED <<routerVarsNoWarm, ctxVars, sideVars>>

\* oldItems := *(...)(atomic.LoadPointer(&shard.items))
WarmLoad(t) ==
  /\ ~crashed
  /\ wm[t].pc = "w_load"
  /\ wm' = [wm EXCEPT ![t].pc = "w_store",
                      ![t].old = BucketItems(BucketOf(wm[t].key))]
  /\ UNCHANGED <<routerVarsNoWarm, ctxVars, sideVars>>

\* the copy of oldItems with the key set is stored in the bucket, and the
\* deferred Unlock runs
WarmStore(t) ==
  /\ ~crashed
  /\ wm[t].pc = "w_store"
  /\ LET key == wm[t].key
         b == BucketOf(key)
         newItems == (key :> WarmItem(wm[t].at)) @@ wm[t].old
         rest == [k \in {x \in DOMAIN hotItems : BucketOf(x) # b}
                    |-> hotItems[k]]
     IN  /\ hotItems' = newItems @@ rest
         /\ bucketPtr' = [bucketPtr EXCEPT ![b] = FreshMap(b)]
         /\ addCount' = (key :> (IF key \in DOMAIN addCount
                                   THEN addCount[key] + 1 ELSE 1))
                          @@ addCount
         /\ pm' = Normalize(pm, pool, th, ret, hotItems' @@ detached)
  /\ wm' = [wm EXCEPT ![t].pc = "idle", ![t].old = [k \in {} |-> 0]]
  /\ UNCHANGED <<nodes, hotCounter, hotCounters, now, pool, th, ret, crashed,
                 reg, batchVars, tickReady, stopChan, cw, detached, held,
                 treeHits, ctxVars, simd, sideVars>>

(***************************************************************************)
(* SpecWarm: NumThreads goroutines each warm a key of one bucket while a   *)
(* cleanup pass runs.  The initial state is a new router one cleanup       *)
(* interval after NewRouter: the ticker has fired.                         *)
(***************************************************************************)
InitWarm ==
  /\ nodes = [k \in {} |-> 0]
  /\ hotCounter = [k \in {} |-> 0]
  /\ hotCounters = {}
  /\ hotItems = [k \in {} |-> 0]
  /\ now = cacheCleanupInterval
  /\ pool = {}
  /\ pm = [m \in MapIds |-> EmptyMap]
  /\ th = [t \in Threads |-> IdleThread]
  /\ ret = [t \in Threads |-> NoRet]
  /\ crashed = FALSE
  /\ reg = [k \in {} |-> 0]
  /\ addCount = [k \in {} |-> 0]
  /\ batch = NoBatch
  /\ workers = [k \in {} |-> 0]
  /\ tickReady = TRUE
  /\ stopChan = "open"
  /\ cw = IdleCleaner
  /\ detached = [k \in {} |-> 0]
  /\ bucketPtr = [b \in Buckets |-> 0]
  /\ AuxInit
  /\ treeHits = [k \in {} |-> 0]

NextWarm ==
  \/ \E t \in Threads :
       \/ \E key \in WarmKeys : WarmupCall(t, key)
       \/ WarmLock(t)
       \/ WarmLoad(t)
       \/ WarmStore(t)
  \/ CleanerTick
  \/ CleanupLock
  \/ CleanupSweep

SpecWarm == InitWarm /\ [][NextWarm]_vars

\* goroutine t's add has returned and no other goroutine has added its key
AddedAlone(t) ==
  /\ wm[t].pc = "idle"
  /\ wm[t].key # <<>>
  /\ \A u \in Threads \ {t} : wm[u].key # wm[t].key

(***************************************************************************)
(* C31.  No update of a cache bucket is lost: once an add has returned,    *)
(* its key is in the cache, whatever other adds of keys of the same bucket *)
(* and whatever cleanup pass ran at the same time, unless a cleanup pass   *)
(* that began a cleanup interval or more after the item's time dropped it. *)
(***************************************************************************)
C31_NoLostCacheUpdate ==
  \A t \in Threads :
    AddedAlone(t) =>
      \/ /\ wm[t].key \in DOMAIN hotItems
         /\ hotItems[wm[t].key] = WarmItem(wm[t].at)
      \/ cw.pass > 0 /\ cw.now - wm[t].at >= cacheCleanupInterval

\* two adds of different keys of one bucket that overlapped have returned
\* and both keys are in the cache, and so is the key of an add that began
\* while a cleanup pass ran
C31_Witness ==
  /\ \E t \in Threads : \E u \in Threads \ {t} :
       /\ AddedAlone(t) /\ AddedAlone(u)
       /\ "add" \in wm[t].with
       /\ BucketOf(wm[t].key) = BucketOf(wm[u].key)
       /\ {wm[t].key, wm[u].key} \subseteq DOMAIN hotItems
  /\ \E t \in Threads :
       /\ AddedAlone(t)
       /\ "cleanup" \in wm[t].with
       /\ wm[t].key \in DOMAIN hotItems

(***************************************************************************)
(* Router.AddRoute as a function of the trees: the trees and the error a   *)
(* call that runs alone leaves, computed level by level as addRoute does.  *)
(***************************************************************************)
RECURSIVE addRouteFrom(_, _, _, _, _, _)
addRouteFrom(tree, method, path, handler, cur, i) ==
  IF i = 0 THEN [tree |-> tree, err |-> "nil"]
  ELSE LET parts == PartsOf[path]
           ck == <<method, ShardOf[path], Append(cur, parts[i])>>
           grown == IF ck \in DOMAIN tree THEN tree
                    ELSE tree @@ (ck :> NewNode(parts[i]))
       IN  IF i = Len(parts)
             THEN IF method \in DOMAIN grown[ck].handlers
                    THEN [tree |-> grown, err |-> "conflict"]
                    ELSE [tree |-> [grown EXCEPT ![ck].handlers =
                                      @ @@ (method :> handler)],
                          err |-> "nil"]
             ELSE addRouteFrom(grown, method, path, handler, ck[3],
                               NextPart(parts, i + 1))

AddRouteAlone(tree, e) ==
  IF ~SupportedMethod(e.method)
    THEN [tree |-> tree, err |-> "unsupported"]
    ELSE addRouteFrom(tree, e.method, e.path, e.handler, RootKey,
                      NextPart(PartsOf[e.path], 1))

RECURSIVE AddRouteEach(_, _)
\* AddRoute for each entry of the sequence, one at a time: the trees and
\* the errors of the calls
AddRouteEach(tree, es) ==
  IF es = <<>> THEN [tree |-> tree, errs |-> <<>>]
  ELSE LET one == AddRouteAlone(tree, Head(es))
           more == AddRouteEach(one.tree, Tail(es))
       IN  [tree |-> more.tree, errs |-> <<one.err>> \o more.errs]

\* the orders of n entries
Orders(n) ==
  {f \in [1..n -> 1..n] : \A i \in 1..n : \A j \in 1..n : f[i] = f[j] => i = j}

\* the routes accepted so far, as entries in some order
RECURSIVE EntriesOf(_)
EntriesOf(ks) ==
  IF ks = {} THEN <<>>
  ELSE LET k == CHOOSE x \in ks : TRUE
       IN  <<Entry(k[1], k[2], reg[k])>> \o EntriesOf(ks \ {k})

(***************************************************************************)
(* C33.  After BatchAddRoutes has returned nil for a batch of supported    *)
(* methods in which no entry repeats a registered route or another entry,  *)
(* the trees are the trees AddRoute leaves when it is called for each      *)
(* entry, one at a time, in any order, on the router as it was before the  *)
(* batch, and each of those calls returns nil as well.                     *)
(***************************************************************************)
C33_BatchEqualsAddRouteEach ==
  \A t \in Threads :
    ( /\ ret[t].kind = "batch"
      /\ \A u \in Threads : th[u].pc = "idle"
      /\ ConflictingEntries(ret[t].entries, ret[t].pre) = {}
      /\ \A j \in 1..Len(ret[t].entries) :
           SupportedMethod(ret[t].entries[j].method) )
    => /\ ret[t].err = "nil"
       /\ LET es == ret[t].entries
              before == AddRouteEach([k \in {} |-> 0],
                                     EntriesOf(ret[t].pre)).tree
          IN  \A f \in Orders(Len(es)) :
                LET each == AddRouteEach(before,
                                         [j \in 1..Len(es) |-> es[f[j]]])
                IN  /\ each.tree = nodes
                    /\ \A j \in 1..Len(es) : each.errs[j] = "nil"

\* a batch of two entries of one shard has returned nil
C33_Witness ==
  \E t \in Threads :
    /\ ret[t].kind = "batch" /\ ret[t].err = "nil"
    /\ \A u \in Threads : th[u].pc = "idle"
    /\ ConflictingEntries(ret[t].entries, ret[t].pre) = {}
    /\ Len(ret[t].entries) = 2
    /\ ShardOf[ret[t].entries[1].path] = ShardOf[ret[t].entries[2].path]
    /\ ret[t].entries[1].path # ret[t].entries[2].path
    /\ ret[t].pre # {}

(***************************************************************************)
(* SpecWarmFind: one goroutine looks up GET /users/list, the route of      *)
(* InitHot, and calls WarmupCache with one string, one call at a time.     *)
(* WarmupCache stores its string as a key of the hot cache, and the key    *)
(* FindRoute probes is the string method + ":" + path.                     *)
(***************************************************************************)
WarmAlone(key) ==
  /\ th[Main].pc = "idle"
  /\ WarmupCall(Main, key)

FindAlone(path) ==
  /\ wm[Main].pc = "idle"
  /\ FindRouteCall(Main, mGET, path)

NextWarmFind ==
  \/ \E key \in WarmKeys : WarmAlone(key)
  \/ WarmLock(Main)
  \/ WarmLoad(Main)
  \/ WarmStore(Main)
  \/ FindAlone(pUsersList)
  \/ HotProbe(Main)
  \/ HotTouch(Main)
  \/ HotCopy(Main)
  \/ FindGet(Main)
  \/ FindWalk(Main)
  \/ FindLeaf(Main)
  \/ PromoCount(Main)
  \/ PromoLoadOrStore(Main)
  \/ PromoAdd(Main)

SpecWarmFind == InitHot /\ [][NextWarmFind]_vars

(***************************************************************************)
(* C34.  Whenever FindRoute(method, path) returns found, the handler it    *)
(* returns is not nil and is the handler registered for the method and a   *)
(* pattern the path matches, also after WarmupCache has stored strings.    *)
(***************************************************************************)
C34_FoundHandlerIsRegistered ==
  \A t \in Threads :
    (Returned(t) /\ ret[t].found) =>
      /\ ret[t].h # NilHandler
      /\ \E k \in DOMAIN reg :
           /\ k[1] = ret[t].method
           /\ Matches(k[2], ret[t].path)
           /\ ret[t].h = reg[k]

(***************************************************************************)
(* SpecMono: the calls run one at a time, on the router of InitShared      *)
(* (GET /users/61 and GET /users/v2/extra, both of shard 224).  The caller *)
(* registers further routes of the shard, wildcard patterns below /users   *)
(* among them, through AddRoute and through a batch, and between the       *)
(* registrations the callers look up the two routes.                       *)
(***************************************************************************)
MonoPatterns == {pUsers61, pUsersId}
MonoPaths == {pUsers61, pUsersV2Extra}
MonoBatches ==
  { <<Entry(mGET, pUsersId, "h1"), Entry(mGET, pUsersE, "h2")>> }

AllIdle ==
  /\ \A u \in Threads : th[u].pc = "idle"
  /\ batch = NoBatch

FindIdle(t, path) ==
  /\ AllIdle
  /\ FindRouteCall(t, mGET, path)

AddIdle(pattern) ==
  /\ AllIdle
  /\ AddRouteCall(Main, mGET, pattern, "h1")

BatchIdle(entries) ==
  /\ AllIdle
  /\ BatchCall(Main, entries)

NextMono ==
  \/ \E t \in Threads : \E path \in MonoPaths : FindIdle(t, path)
  \/ \E pattern \in MonoPatterns : AddIdle(pattern)
  \/ \E entries \in MonoBatches : BatchIdle(entries)
  \/ AddRouteWalk(Main)
  \/ AddRouteLeaf(Main)
  \/ BatchPick(Main)
  \/ \E s \in DOMAIN workers : WorkerStart(s)
  \/ \E s \in DOMAIN workers : WorkerNext(s)
  \/ \E s \in DOMAIN workers : WorkerWalk(s)
  \/ \E s \in DOMAIN workers : WorkerLeaf(s)
  \/ BatchJoin(Main)
  \/ \E t \in Threads :
       \/ HotProbe(t)
       \/ HotTouch(t)
       \/ HotCopy(t)
       \/ FindGet(t)
       \/ FindWalk(t)
       \/ FindLeaf(t)
       \/ PromoCount(t)
       \/ PromoLoadOrStore(t)
       \/ PromoAdd(t)

SpecMono == InitShared /\ [][NextMono]_vars

RerunPatterns == {pUsersList, pUsersId}
RerunBatches ==
  { <<Entry(mGET, pUsersList, "h1"), Entry(mGET, pUsersId, "h2")>>,
    <<Entry(mGET, pUsersList, "h1"), Entry(mPOST, pUsersList, "h2")>> }

BatchBy(t, entries) ==
  /\ AllIdle
  /\ BatchCall(t, entries)

NextRerun ==
  \/ \E t \in Threads : \E entries \in RerunBatches : BatchBy(t, entries)
  \/ \E pattern \in RerunPatterns : AddIdle(pattern)
  \/ AddRouteWalk(Main)
  \/ AddRouteLeaf(Main)
  \/ \E t \in Threads : BatchPick(t)
  \/ \E s \in DOMAIN workers : WorkerStart(s)
  \/ \E s \in DOMAIN workers : WorkerNext(s)
  \/ \E s \in DOMAIN workers : WorkerWalk(s)
  \/ \E s \in DOMAIN workers : WorkerLeaf(s)
  \/ \E t \in Threads : BatchJoin(t)

SpecRerun == Init /\ [][NextRerun]_vars

(***************************************************************************)
(* C37.  The outcome of BatchAddRoutes is a function of the batch and of   *)
(* the router before the call: two calls with the same batch on the same   *)
(* router state (the routes registered when either call began are the      *)
(* routes registered now, so neither call changed the router) return the   *)
(* same error for the same entry.                                          *)
(***************************************************************************)
C37_BatchOutcomeDetermined ==
  \A t \in Threads : \A u \in Threads \ {t} :
    ( /\ ret[t].kind = "batch" /\ ret[u].kind = "batch"
      /\ ret[t].entries = ret[u].entries
      /\ ret[t].pre = DOMAIN reg
      /\ ret[u].pre = DOMAIN reg )
    => /\ ret[t].err = ret[u].err
       /\ ret[t].path = ret[u].path

\* a failed batch of two methods has registered the route of the method
\* taken first
C37_MethodOrderSeen ==
  \E t \in Threads :
    /\ ret[t].kind = "batch" /\ ret[t].err = "conflict"
    /\ ret[t].pre = {<<mGET, pUsersList>>}
    /\ <<mPOST, pUsersList>> \in DOMAIN reg

\* the same failed batch on the same router has registered nothing
C37_MethodOrderOther ==
  \E t \in Threads :
    /\ ret[t].kind = "batch" /\ ret[t].err = "conflict"
    /\ ret[t].pre = {<<mGET, pUsersList>>}
    /\ Len(ret[t].entries) = 2 /\ ret[t].entries[2].method = mPOST
    /\ DOMAIN reg = {<<mGET, pUsersList>>}

(***************************************************************************)
(* getShard and the bucket index, with the width of int.  h.Sum32() is a   *)
(* uint32, kept here as its two 16-bit halves; int(h.Sum32()) is the same  *)
(* number where int has 64 bits and the number minus 2^32 where int has    *)
(* 32 bits and the top bit is set.  Go's % truncates towards zero, so the  *)
(* remainder of a negative number is negative or zero.  methodShardCount   *)
(* divides 2^16, so the remainder of 2^32 - sum is that of 2^16 - low.     *)
(***************************************************************************)
IntBits == {32, 64}

TopBitSet(sum) == sum[1] >= 32768

GoRem(a, n) == IF a >= 0 THEN a % n ELSE -((-a) % n)

\* int(h.Sum32()) % methodShardCount
ShardIndexOf(sum, bits) ==
  IF bits = 32 /\ TopBitSet(sum)
    THEN -((65536 - sum[2]) % methodShardCount)
    ELSE sum[2] % methodShardCount

\* the strings getShard is given: patterns, paths and cache keys
ShardStrings ==
  AddPatterns \cup FindPaths \cup EdgePatterns \cup DOMAIN BucketOfKey

GetShardCall(s, bits) ==
  /\ shardCall.pc \in {"none", "done"}
  /\ shardCall' = [NoShardCall EXCEPT !.pc = "write", !.s = s, !.bits = bits,
                                      !.i = 1]
  /\ UNCHANGED <<routerVarsNoWarm, ctxVars, wm, others, eng>>

\* h.Write([]byte(path)), byte by byte
GetShardWrite ==
  /\ shardCall.pc = "write"
  /\ shardCall.i <= Len(shardCall.s)
  /\ shardCall' = [shardCall EXCEPT
                     !.h = fnvStep(@, shardCall.s[shardCall.i]), !.i = @ + 1]
  /\ UNCHANGED <<routerVarsNoWarm, ctxVars, wm, others, eng>>

\* return int(h.Sum32()) % methodShardCount
GetShardReturn ==
  /\ shardCall.pc = "write"
  /\ shardCall.i > Len(shardCall.s)
  /\ shardCall' = [shardCall EXCEPT
                     !.pc = "index",
                     !.idx = ShardIndexOf(shardCall.h, shardCall.bits)]
  /\ UNCHANGED <<routerVarsNoWarm, ctxVars, wm, others, eng>>

\* shardIdx := getShard(key) % cacheShardCount
GetBucket ==
  /\ shardCall.pc = "index"
  /\ shardCall' = [shardCall EXCEPT
                     !.pc = "done",
                     !.bucket = GoRem(shardCall.idx, cacheShardCount)]
  /\ UNCHANGED <<routerVarsNoWarm, ctxVars, wm, others, eng>>

NextShard ==
  \/ \E s \in ShardStrings : \E bits \in IntBits : GetShardCall(s, bits)
  \/ GetShardWrite
  \/ GetShardReturn
  \/ GetBucket

SpecShard == Init /\ [][NextShard]_vars

(***************************************************************************)
(* C38.  The index getShard returns is in 0..methodShardCount-1 and the    *)
(* bucket index taken from it is in 0..cacheShardCount-1, for every        *)
(* string, also when the hash has its top bit set.                         *)
(***************************************************************************)
C38_ShardIndexInRange ==
  /\ shardCall.pc \in {"index", "done"} =>
       shardCall.idx \in 0..(methodShardCount - 1)
  /\ shardCall.pc = "done" => shardCall.bucket \in Buckets

\* where int has 64 bits the indices of a hash with the top bit set are in
\* range
C38_WideIntInRange ==
  /\ shardCall.pc = "done"
  /\ shardCall.bits = 64
  /\ TopBitSet(shardCall.h)
  /\ shardCall.idx \in 0..(methodShardCount - 1)
  /\ shardCall.bucket \in Buckets

(***************************************************************************)
(* The entries of the hot cache.  Besides the keys the callers of the      *)
(* model use, WarmupCache is given strings that are none of them; they     *)
(* are counted in `others`, and they fall into the bucket of the key GET   *)
(* /users/list, whose entries each store copies along.                     *)
(***************************************************************************)
OtherBucket == BucketOf(HotKey)

HotEntries == Cardinality(DOMAIN hotItems) + others

\* WarmupCache with one string that is not yet a key of the cache:
\* shardedCache.add under the bucket's mutex stores a map with one more key
WarmOther ==
  /\ ~crashed
  /\ AllIdle
  /\ wm[Main].pc = "idle"
  /\ BucketFree(OtherBucket)
  /\ others < hotCacheSize
  /\ others' = others + 1
  /\ bucketPtr' = [bucketPtr EXCEPT ![OtherBucket] = FreshMap(OtherBucket)]
  /\ UNCHANGED <<nodes, hotCounter, hotCounters, hotItems, now, pool, pm, th,
                 ret, crashed, reg, addCount, batchVars, tickReady, stopChan,
                 cw, detached, held, treeHits, ctxVars, simd, wm, shardCall,
                 eng>>

(***************************************************************************)
(* SpecFill: the goroutine of SpecWarmFind, which looks up and warms the   *)
(* route of InitHot, also warms other strings, with no cleanup pass.       *)
(***************************************************************************)
NextFill ==
  \/ NextWarmFind
  \/ WarmOther

SpecFill == InitHot /\ [][NextFill]_vars

(***************************************************************************)
(* C39.  The hot cache never holds more than hotCacheSize entries.         *)
(***************************************************************************)
C39_HotCacheBounded == HotEntries <= hotCacheSize

(***************************************************************************)
(* Engine and RouterGroup.  The routes of an Engine are kept in one        *)
(* tree.Node tree; a node is named by the parts on the way from the root.  *)
(***************************************************************************)
\* parsePattern: the non-empty parts, up to and with the first that begins
\* with '*'
parsePattern(s) ==
  LET parts == SelectSeq(PartsOf[s], LAMBDA x : x # <<>>)
      stars == {i \in 1..Len(parts) : parts[i][1] = Star}
  IN  IF stars = {} THEN parts ELSE SubSeq(parts, 1, Min(stars))

EngChildren(tree, key) ==
  {c \in DOMAIN tree : Len(c) = Len(key) + 1 /\ SubSeq(c, 1, Len(key)) = key}

\* Node.matchChild: the child keyed by the part, else a wildcard child, the
\* first the map iteration yields; none when the set is empty
matchChild(tree, key, part) ==
  IF Append(key, part) \in DOMAIN tree THEN {Append(key, part)}
  ELSE {c \in EngChildren(tree, key) : tree[c].isWild}

\* Node.Insert: the trees it can leave
RECURSIVE Insert(_, _, _, _, _)
Insert(tree, key, pattern, parts, handler) ==
  IF Len(parts) = Len(key)
    THEN {[tree EXCEPT ![key].pattern = pattern, ![key].handler = handler]}
    ELSE LET part == parts[Len(key) + 1]
             found == matchChild(tree, key, part)
             made == Append(key, part)
         IN  IF found = {}
               THEN Insert(tree @@ (made :> EngNode(part[1] \in {Colon, Star})),
                           made, pattern, parts, handler)
               ELSE UNION {Insert(tree, c, pattern, parts, handler) : c \in found}

\* Node.matchChildren
matchChildren(tree, key, part) ==
  {c \in EngChildren(tree, key) : c[Len(c)] = part \/ tree[c].isWild}

\* Node.Search: the nodes it can return, none for nil
RECURSIVE Search(_, _, _)
Search(tree, key, parts) ==
  IF Len(parts) = Len(key) \/ (key # <<>> /\ key[Len(key)][1] = Star)
    THEN IF tree[key].pattern = <<>> THEN {} ELSE {key}
    ELSE UNION {Search(tree, c, parts) :
                  c \in matchChildren(tree, key, parts[Len(key) + 1])}

EngMethods == {mGET, mPOST}
EngPatterns == {pUsersList, pUsersId}
EngPaths == {pUsersList, pUsers42}

\* Engine.GET(pattern, handler), Engine.POST(pattern, handler):
\* RouterGroup.addRoute(method, pattern, handler) of the root group
EngineAddRoute(method, pattern, handler) ==
  /\ <<method, pattern>> \notin DOMAIN eng.routes
  /\ \E tree \in Insert(eng.tree, <<>>, pattern, parsePattern(pattern), handler) :
       eng' = [eng EXCEPT !.tree = tree,
                          !.routes = (<<method, pattern>> :> handler) @@ @]
  /\ UNCHANGED <<routerVarsNoWarm, ctxVars, wm, others, shardCall>>

\* Engine.handle for a request: the handlers of the node Search returns,
\* or the 404 handler
EngineHandle(method, path) ==
  /\ LET nodesFound == Search(eng.tree, <<>>, parsePattern(path))
     IN  IF nodesFound = {}
           THEN eng' = [eng EXCEPT !.resp = [method |-> method, path |-> path,
                                             handler |-> "404"]]
           ELSE \E n \in nodesFound :
                  eng' = [eng EXCEPT !.resp =
                            [method |-> method, path |-> path,
                             handler |-> eng.tree[n].handler]]
  /\ UNCHANGED <<routerVarsNoWarm, ctxVars, wm, others, shardCall>>

NextEngine ==
  \/ \E method \in EngMethods : \E pattern \in EngPatterns :
       \E handler \in Handlers : EngineAddRoute(method, pattern, handler)
  \/ \E method \in EngMethods : \E path \in EngPaths :
       EngineHandle(method, path)

SpecEngine == Init /\ [][NextEngine]_vars

(***************************************************************************)
(* C40.  A request is given a handler that was registered for its own      *)
(* method and a pattern its path matches, and the 404 handler when the     *)
(* method has no such registration.                                        *)
(***************************************************************************)
C40_DispatchByMethod ==
  eng.resp.handler # "none" =>
    LET own == {k \in DOMAIN eng.routes :
                  k[1] = eng.resp.method /\ Matches(k[2], eng.resp.path)}
    IN  IF own = {} THEN eng.resp.handler = "404"
        ELSE \E k \in own : eng.resp.handler = eng.routes[k]
=============================================================================
